---- MODULE Spec2Model ----
(***************************************************************************)
(* Remora backend (FastAPI + MongoDB + Socket.IO): the SOS fan-out, the    *)
(* device-token identity resolution, the patient/caregiver link graph and  *)
(* the latest-location store, as a state machine over the Mongo            *)
(* collections.  One action is one HTTP handler run to completion.         *)
(*                                                                         *)
(* Text values (ids, emails, tokens, caregiver codes) are sequences of     *)
(* one-character strings, so that parsing, case folding, trimming and      *)
(* regular-expression search are computed and not assumed.  Python's None  *)
(* is None for text and <<>> for an optional number or time; <<v>> is a    *)
(* present number or time.                                                 *)
(***************************************************************************)
EXTENDS Integers, Sequences, FiniteSets, TLC

VARIABLES
    User,                 \* collection User, in natural (insertion) order
    PatientCaregiverLink, \* collection PatientCaregiverLink
    PatientLocation,      \* collection PatientLocation
    PatientProfile,       \* collection PatientProfile
    Alert,                \* collection Alert
    Notification,         \* collection Notification
    issued,               \* how many device tokens secrets.token_urlsafe has produced
    registered,           \* history: the (token, user) pairs register-device has returned
    clock,                \* datetime.now(timezone.utc): it advances with every handler that reads it
    req,                  \* the request the last handler received
    resp,                 \* what the last handler returned or raised
    emitted,              \* the events the last handler handed to sio.start_background_task
    proc,                 \* the local variables of the POST /sos coroutines in progress
    tasks,                \* background tasks started (sio.emit calls) that have not run yet
    rooms,                \* Socket.IO rooms: the (sid, room) pairs of enter_room
    delivered             \* history: what each background task did when it ran

vars == <<User, PatientCaregiverLink, PatientLocation, PatientProfile, Alert,
          Notification, issued, registered, clock, req, resp, emitted,
          proc, tasks, rooms, delivered>>

\* the state of the coroutines and of the realtime layer
realtime == <<tasks, rooms, delivered>>

db == <<User, PatientCaregiverLink, PatientLocation, PatientProfile, Alert, Notification>>

(***************************************************************************)
(* Bounds of the model.                                                    *)
(***************************************************************************)
\* handler runs that write to the store (each reads the clock once)
MaxClock == 3
\* device tokens the token source produces
MaxTokens == 2

(***************************************************************************)
(* Text.                                                                   *)
(***************************************************************************)
None == <<"<None>">>

\* Python truthiness of an Optional[str]: None and "" are false
Truthy(s) == s # None /\ s # <<>>

\* Python's `a or b` on Optional[str]
PyOr(a, b) == IF Truthy(a) THEN a ELSE b

LowerChar(c) ==
    CASE c = "A" -> "a" [] c = "B" -> "b" [] c = "C" -> "c"
      [] c = "D" -> "d" [] c = "E" -> "e" [] c = "F" -> "f"
      [] c = "P" -> "p" [] c = "X" -> "x"
      [] OTHER -> c

Lower(s) == [i \in 1..Len(s) |-> LowerChar(s[i])]

HexChars == {"0", "1", "2", "3", "4", "5", "6", "7", "8", "9",
             "a", "b", "c", "d", "e", "f", "A", "B", "C", "D", "E", "F"}

\* the length of the hexadecimal form of an ObjectId
ObjectIdLen == 24

\* variant: only lower-case hexadecimal is accepted as an ObjectId
ObjectIdValid_LowerOnly(s) ==
    /\ s # None
    /\ Len(s) = ObjectIdLen
    /\ \A i \in 1..Len(s) : s[i] \in {"0", "1", "2", "3", "4", "5", "6", "7", "8", "9",
                                      "a", "b", "c", "d", "e", "f"}

\* bson.ObjectId(s) accepts exactly the 24-digit hexadecimal strings
ObjectIdValid(s) ==
    /\ s # None
    /\ Len(s) = ObjectIdLen
    /\ \A i \in 1..Len(s) : s[i] \in HexChars

\* bson.ObjectId(s) of a valid s: the 12 bytes, written here in the form str()
\* gives them back (lower-case hexadecimal)
ObjectId(s) == Lower(s)

\* str(oid)
Str(oid) == oid

\* a 24-character text ending in the two characters of tail
Pad(tail) == [i \in 1..ObjectIdLen |-> IF i <= ObjectIdLen - 2 THEN "0" ELSE tail[i - (ObjectIdLen - 2)]]

DigitChar(k) ==
    CASE k = 0 -> "0" [] k = 1 -> "1" [] k = 2 -> "2" [] k = 3 -> "3" [] k = 4 -> "4"
      [] k = 5 -> "5" [] k = 6 -> "6" [] k = 7 -> "7" [] k = 8 -> "8" [] OTHER -> "9"

(***************************************************************************)
(* The registered users.  auth.register has run for each of them before    *)
(* the first state: two patients and two caregivers, no device, no link.   *)
(***************************************************************************)
P1 == Pad(<<"a", "1">>)
P2 == Pad(<<"a", "2">>)
C1 == Pad(<<"c", "1">>)
C2 == Pad(<<"c", "2">>)

UserIds == {P1, P2, C1, C2}

\* a field the document does not have
Absent == "<absent>"

\* the document auth.register stores, read back
NewUser(id, email, name, role) ==
    [_id |-> id, email |-> email, name |-> name, role |-> role,
     status |-> Absent, emergencyTriggeredAt |-> <<>>,
     createdAt |-> 0, updatedAt |-> 0, deviceTokens |-> <<>>]

InitUsers ==
    << NewUser(P1, <<"p", "1", "@", "x">>, "Pat1", "PATIENT"),
       NewUser(P2, <<"p", "2", "@", "x">>, "Pat2", "PATIENT"),
       NewUser(C1, <<"c", "1", "@", "x">>, "Care1", "CAREGIVER"),
       NewUser(C2, <<"c", "2", "@", "x">>, "Care2", "CAREGIVER") >>

(***************************************************************************)
(* The document store: a collection is the sequence of its documents in    *)
(* insertion order.                                                        *)
(***************************************************************************)
\* find_one over the positions a filter matches: the first of them, 0 for none
First(positions) ==
    IF positions = {} THEN 0
    ELSE CHOOSE i \in positions : \A j \in positions : i <= j

\* cursor.to_list(length=n)
ToList(docs, n) == IF Len(docs) <= n THEN docs ELSE SubSeq(docs, 1, n)

\* find_one(..., sort=[("recordedAt", -1)]) over the positions a filter matches in
\* coll: the first of those of greatest recordedAt, 0 for none
FirstLatest(coll, positions) ==
    First({i \in positions : \A j \in positions : coll[j].recordedAt <= coll[i].recordedAt})

\* variant: the token query matches any user that has a device at all
HasDeviceToken_AnyDevice(u, token) == Len(u.deviceTokens) > 0

\* the {"deviceTokens.token": token} filter
HasDeviceToken(u, token) == \E k \in 1..Len(u.deviceTokens) : u.deviceTokens[k].token = token

\* db._convert_to_ist: the same instant, written as an ISO string at +05:30
ConvertToIst(t) == [iso |-> t, tz |-> "+05:30"]

(***************************************************************************)
(* realtime.py                                                             *)
(***************************************************************************)
RecipientPrefix == <<"r", "e", "c", "i", "p", "i", "e", "n", "t", ":">>

\* the room f"recipient:{recipient_id}"
Room(recipient_id) == RecipientPrefix \o recipient_id

emit_alert_new(recipient_id, payload) ==
    [event |-> "alert:new", room |-> Room(recipient_id), payload |-> payload]

\* variant: the signal goes to a room of its own, "device:" + recipient_id
emit_device_voice_toggle_OwnRoom(recipient_id) ==
    [event |-> "device:voice_toggle", room |-> <<"d", "e", "v", "i", "c", "e", ":">> \o recipient_id,
     payload |-> <<>>]

\* lines 32-34
emit_device_voice_toggle(recipient_id) ==
    [event |-> "device:voice_toggle", room |-> Room(recipient_id), payload |-> <<>>]

(***************************************************************************)
(* Requests and responses.                                                 *)
(***************************************************************************)
\* a request: the operation, the authenticated caller's id (bearer-token routes),
\* and the fields of the body and of the query string
Request(op) ==
    [op |-> op, auth |-> None, bodyToken |-> None, queryToken |-> None,
     bodyUserId |-> None, queryUserId |-> None, code |-> None, ping |-> <<>>,
     alertId |-> None, alert |-> <<>>, body |-> <<>>,
     recipientId |-> None]

\* a JSON response or an HTTPException: the status code, the detail or message, and
\* the fields the handlers return
Response(code, detail) ==
    [code |-> code, detail |-> detail, userId |-> None, oid |-> None, status |-> "",
     caregiversNotified |-> <<>>, alertId |-> <<>>, deviceToken |-> None, items |-> <<>>]

(***************************************************************************)
(* routers_sos.py: POST /sos                                               *)
(***************************************************************************)
UserByToken(token) == First({i \in 1..Len(User) : HasDeviceToken(User[i], token)})

UserByOid(oid) == First({i \in 1..Len(User) : User[i]._id = oid})

\* variant: the explicit userId is consulted before the device token
ResolveIdentity_UserIdFirst(r) ==
    LET device_token == PyOr(r.bodyToken, r.queryToken)
        user_id == PyOr(r.bodyUserId, r.queryUserId)
        failed(code, detail) ==
            [ok |-> FALSE, code |-> code, detail |-> detail, idx |-> 0, oid |-> None, user_id |-> None]
    IN  IF Truthy(user_id) THEN
            IF ~ObjectIdValid(user_id) THEN failed(400, "Invalid userId format")
            ELSE LET i == UserByOid(ObjectId(user_id))
                 IN  IF i = 0 THEN failed(404, "User not found")
                     ELSE [ok |-> TRUE, code |-> 200, detail |-> "userId", idx |-> i,
                           oid |-> ObjectId(user_id), user_id |-> user_id]
        ELSE IF Truthy(device_token) THEN
            LET i == UserByToken(device_token)
            IN  IF i = 0 THEN failed(401, "Invalid device token")
                ELSE [ok |-> TRUE, code |-> 200, detail |-> "token", idx |-> i,
                      oid |-> User[i]._id, user_id |-> Str(User[i]._id)]
        ELSE failed(400, "Either deviceToken or userId is required. Use deviceToken for dynamic user identification.")

\* lines 185-229: who the request is for.  ok, or the HTTPException raised
ResolveIdentity(r) ==
    LET device_token == PyOr(r.bodyToken, r.queryToken)
        user_id == PyOr(r.bodyUserId, r.queryUserId)
        failed(code, detail) ==
            [ok |-> FALSE, code |-> code, detail |-> detail, idx |-> 0, oid |-> None, user_id |-> None]
    IN  IF Truthy(device_token) THEN
            LET i == UserByToken(device_token)
            IN  IF i = 0 THEN failed(401, "Invalid device token")
                ELSE [ok |-> TRUE, code |-> 200, detail |-> "token", idx |-> i,
                      oid |-> User[i]._id, user_id |-> Str(User[i]._id)]
        ELSE IF Truthy(user_id) THEN
            IF ~ObjectIdValid(user_id) THEN failed(400, "Invalid userId format")
            ELSE LET i == UserByOid(ObjectId(user_id))
                 IN  IF i = 0 THEN failed(404, "User not found")
                     ELSE [ok |-> TRUE, code |-> 200, detail |-> "userId", idx |-> i,
                           oid |-> ObjectId(user_id), user_id |-> user_id]
        ELSE failed(400, "Either deviceToken or userId is required. Use deviceToken for dynamic user identification.")

\* variant: the update filters on users that are not in emergency yet
SetEmergency_OnlyFromNormal(users, oid, now) ==
    LET i == First({k \in 1..Len(users) : users[k]._id = oid /\ users[k].status # "emergency"})
    IN  IF i = 0 THEN users
        ELSE [users EXCEPT ![i].status = "emergency",
                           ![i].updatedAt = now,
                           ![i].emergencyTriggeredAt = <<now>>]

\* lines 233-242: update_one({"_id": oid}, {"$set": status, updatedAt, emergencyTriggeredAt})
SetEmergency(users, oid, now) ==
    LET i == First({k \in 1..Len(users) : users[k]._id = oid})
    IN  IF i = 0 THEN users
        ELSE [users EXCEPT ![i].status = "emergency",
                           ![i].updatedAt = now,
                           ![i].emergencyTriggeredAt = <<now>>]

\* the limit of to_list on the link query
LinkListLimit == 100

\* lines 252-257: the caregiverUserId of the ACTIVE links whose patientUserId is user_id
CaregiverIds(user_id) ==
    LET links == ToList(SelectSeq(PatientCaregiverLink,
                     LAMBDA l : l.patientUserId = user_id /\ l.status = "ACTIVE"), LinkListLimit)
    IN  [k \in 1..Len(links) |-> links[k].caregiverUserId]

\* lines 260-263: the position of the patient's latest location, 0 for none
LatestLocation(user_id) ==
    FirstLatest(PatientLocation, {i \in 1..Len(PatientLocation) : PatientLocation[i].userId = user_id})

\* lines 260-263: latest_location, the document as find_one returned it; <<>> is None
LatestLocationDoc(user_id) ==
    IF LatestLocation(user_id) = 0 THEN <<>> ELSE <<PatientLocation[LatestLocation(user_id)]>>

\* latest_location.get(field) if latest_location else None
LocationField(loc, field) == IF loc = <<>> THEN <<>> ELSE <<loc[1][field]>>

\* the _id insert_one gives the k-th document of a collection
DocId(kind, k) == Pad(<<kind, DigitChar(k)>>)

\* lines 268-279
NotificationDoc(k, caregiver_id, user_id, user_name, loc, now) ==
    [_id |-> DocId("d", k), userId |-> caregiver_id, type |-> "SOS", isRead |-> FALSE,
     createdAt |-> now, relatedPatientId |-> user_id, relatedPatientName |-> user_name,
     latitude |-> LocationField(loc, "latitude"), longitude |-> LocationField(loc, "longitude")]

\* lines 285-297
AlertDoc(k, user_id, user_name, user_email, caregiver_ids, loc, now) ==
    [_id |-> DocId("e", k), recipientId |-> user_id,
     title |-> user_name, message |-> <<user_name, user_email>>,
     type |-> "SOS", severity |-> "CRITICAL", isAcknowledged |-> FALSE, createdAt |-> now,
     patientUserId |-> user_id, caregiverUserIds |-> caregiver_ids,
     latitude |-> LocationField(loc, "latitude"), longitude |-> LocationField(loc, "longitude")]

\* db.serialize_mongo_document of an Alert: _id becomes id, a datetime its IST string
SerializeAlert(doc) ==
    [id |-> Str(doc._id), recipientId |-> doc.recipientId, title |-> doc.title,
     message |-> doc.message, type |-> doc.type, severity |-> doc.severity,
     isAcknowledged |-> doc.isAcknowledged, createdAt |-> ConvertToIst(doc.createdAt),
     patientUserId |-> doc.patientUserId, caregiverUserIds |-> doc.caregiverUserIds,
     latitude |-> doc.latitude, longitude |-> doc.longitude]

\* lines 303-306: what is emitted once the alert is stored
AlertEmits(user_id, caregiver_ids, alert) ==
    [k \in 1..Len(caregiver_ids) |-> emit_alert_new(user_id, alert)]

\* variant: the failure is published to the room of the id the request named
SosRejected_StillPublishes(id) ==
    /\ resp' = Response(id.code, id.detail)
    /\ emitted' = <<emit_alert_new(None, <<>>)>>
    /\ UNCHANGED <<db, issued, clock>>

\* lines 199-202, 213-216, 220-223, 226-229: the HTTPException goes to the caller
SosRejected(id) ==
    /\ resp' = Response(id.code, id.detail)
    /\ emitted' = <<>>
    /\ UNCHANGED <<db, issued, clock>>

handle_sos(r) ==
    LET id == ResolveIdentity(r)
    IN  /\ req' = r
        /\ registered' = registered
        /\ IF ~id.ok
           THEN SosRejected(id)
           ELSE LET now == clock
                    user_raw == User[id.idx]
                    caregiver_ids == CaregiverIds(id.user_id)
                    loc == LatestLocationDoc(id.user_id)
                    notes == [k \in 1..Len(caregiver_ids) |->
                                 NotificationDoc(Len(Notification) + k, caregiver_ids[k],
                                                 id.user_id, user_raw.name, loc, now)]
                    alert_doc == AlertDoc(Len(Alert) + 1, id.user_id, user_raw.name,
                                          user_raw.email, caregiver_ids, loc, now)
                    alert == SerializeAlert(alert_doc)
                IN  /\ clock <= MaxClock
                    /\ clock' = clock + 1
                    /\ User' = SetEmergency(User, id.oid, now)
                    /\ Notification' = Notification \o notes
                    /\ Alert' = Append(Alert, alert_doc)
                    /\ emitted' = AlertEmits(id.user_id, caregiver_ids, alert)
                    /\ resp' = [Response(200, "SOS received and user status updated to emergency")
                                  EXCEPT !.userId = id.user_id, !.oid = id.oid,
                                         !.status = "emergency",
                                         !.caregiversNotified = <<Len(notes)>>,
                                         !.alertId = <<alert.id>>]
                    /\ UNCHANGED <<PatientCaregiverLink, PatientLocation, PatientProfile, issued>>

(***************************************************************************)
(* routers_sos.py: POST /sos/voice-toggle and POST /sos/register-device    *)
(***************************************************************************)
\* lines 79-83, 89-93: the HTTPException goes to the caller
VoiceRejected(code, detail) ==
    /\ resp' = Response(code, detail)
    /\ emitted' = <<>>
    /\ UNCHANGED <<db, clock>>

\* variant: the toggle is handled like an SOS press and puts the user in emergency
VoiceAccepted_SetsEmergency(i) ==
    /\ resp' = [Response(200, "Voice toggle sent to app")
                  EXCEPT !.userId = Str(User[i]._id), !.oid = User[i]._id]
    /\ emitted' = <<emit_device_voice_toggle(Str(User[i]._id))>>
    /\ User' = SetEmergency(User, User[i]._id, clock)
    /\ UNCHANGED <<PatientCaregiverLink, PatientLocation, PatientProfile, Alert,
                   Notification, clock>>

\* lines 95-100: the signal is emitted, nothing is written
VoiceAccepted(i) ==
    /\ resp' = [Response(200, "Voice toggle sent to app")
                  EXCEPT !.userId = Str(User[i]._id), !.oid = User[i]._id]
    /\ emitted' = <<emit_device_voice_toggle(Str(User[i]._id))>>
    /\ UNCHANGED <<db, clock>>

voice_toggle(r) ==
    LET token == PyOr(r.bodyToken, r.queryToken)
        i == UserByToken(token)
    IN  /\ req' = r
        /\ UNCHANGED <<issued, registered>>
        /\ IF ~Truthy(token)
           THEN VoiceRejected(400, "deviceToken is required (body or query)")
           ELSE IF i = 0
           THEN VoiceRejected(401, "Invalid device token")
           ELSE VoiceAccepted(i)

\* auth.get_current_user: the position of the bearer token's user, 0 for none (401)
get_current_user(auth) == IF ObjectIdValid(auth) THEN UserByOid(ObjectId(auth)) ELSE 0

\* secrets.token_urlsafe(32): the k-th value it produces.  Values of 256 random bits
\* are taken to be pairwise distinct, and are named by the order of their production
TokenOf(k) == <<"t", DigitChar(k)>>

\* variant: $set in place of $push, the new device replaces the list
PushDevice_ReplacesList(users, oid, device_info, now) ==
    LET i == First({k \in 1..Len(users) : users[k]._id = oid})
    IN  IF i = 0 THEN users
        ELSE [users EXCEPT ![i].deviceTokens = <<device_info>>, ![i].updatedAt = now]

\* variant: registering a device also clears the user's status
PushDevice_ClearsStatus(users, oid, device_info, now) ==
    LET i == First({k \in 1..Len(users) : users[k]._id = oid})
    IN  IF i = 0 THEN users
        ELSE [users EXCEPT ![i].deviceTokens = Append(@, device_info), ![i].updatedAt = now,
                           ![i].status = Absent, ![i].emergencyTriggeredAt = <<>>]

\* lines 132-138: $push the device, $set updatedAt
PushDevice(users, oid, device_info, now) ==
    LET i == First({k \in 1..Len(users) : users[k]._id = oid})
    IN  IF i = 0 THEN users
        ELSE [users EXCEPT ![i].deviceTokens = Append(@, device_info), ![i].updatedAt = now]

register_device(r) ==
    LET cu == get_current_user(r.auth)
        user_id == Str(User[cu]._id)
        now == clock
        device_token == TokenOf(issued + 1)
        device_info == [token |-> device_token, registeredAt |-> now]
    IN  /\ req' = r
        /\ emitted' = <<>>
        /\ IF cu = 0
           THEN /\ resp' = Response(401, "User not found")
                /\ UNCHANGED <<db, issued, registered, clock>>
           ELSE /\ clock <= MaxClock
                /\ issued < MaxTokens
                /\ clock' = clock + 1
                /\ issued' = issued + 1
                /\ registered' = registered \cup {[token |-> device_token, user |-> User[cu]._id]}
                /\ User' = PushDevice(User, ObjectId(user_id), device_info, now)
                /\ resp' = [Response(200, "Device registered successfully")
                              EXCEPT !.deviceToken = device_token]
                /\ UNCHANGED <<PatientCaregiverLink, PatientLocation, PatientProfile,
                               Alert, Notification>>

(***************************************************************************)
(* routers_patients.py: POST /patients/me/location                         *)
(***************************************************************************)
\* _ensure_patient_profile: touch the profile of user_id, or insert it
EnsurePatientProfile(profiles, user_id, now) ==
    LET i == First({k \in 1..Len(profiles) : profiles[k].userId = user_id})
    IN  IF i # 0 THEN [profiles EXCEPT ![i].updatedAt = now]
        ELSE Append(profiles, [_id |-> DocId("b", Len(profiles) + 1), userId |-> user_id,
                               createdAt |-> now, updatedAt |-> now])

\* variant: insert_one in place of the upsert
UpsertLocation_AlwaysInsert(locations, user_id, body, now) ==
    Append(locations,
           [_id |-> DocId("f", Len(locations) + 1), userId |-> user_id,
            latitude |-> body.latitude, longitude |-> body.longitude,
            accuracy |-> body.accuracy, battery |-> body.battery,
            recordedAt |-> IF body.recordedAt # <<>> THEN body.recordedAt[1] ELSE now,
            updatedAt |-> now, createdAt |-> now])

\* lines 82-97: update_one({"userId": user_id}, {"$set": doc, "$setOnInsert": {"createdAt": now}},
\* upsert=True)
UpsertLocation(locations, user_id, body, now) ==
    LET i == First({k \in 1..Len(locations) : locations[k].userId = user_id})
        recordedAt == IF body.recordedAt # <<>> THEN body.recordedAt[1] ELSE now
    IN  IF i # 0
        THEN [locations EXCEPT ![i].latitude = body.latitude,
                               ![i].longitude = body.longitude,
                               ![i].accuracy = body.accuracy,
                               ![i].battery = body.battery,
                               ![i].recordedAt = recordedAt,
                               ![i].updatedAt = now]
        ELSE Append(locations,
                    [_id |-> DocId("f", Len(locations) + 1), userId |-> user_id,
                     latitude |-> body.latitude, longitude |-> body.longitude,
                     accuracy |-> body.accuracy, battery |-> body.battery,
                     recordedAt |-> recordedAt, updatedAt |-> now, createdAt |-> now])

\* db.serialize_mongo_document of a PatientLocation
SerializeLocation(doc) ==
    [id |-> Str(doc._id), userId |-> doc.userId, latitude |-> doc.latitude,
     longitude |-> doc.longitude, accuracy |-> doc.accuracy, battery |-> doc.battery,
     recordedAt |-> ConvertToIst(doc.recordedAt), updatedAt |-> ConvertToIst(doc.updatedAt),
     createdAt |-> ConvertToIst(doc.createdAt)]

ping_my_location(r) ==
    LET cu == get_current_user(r.auth)
        user_id == Str(User[cu]._id)
        now == clock
        body == r.ping[1]
        stored == UpsertLocation(PatientLocation, user_id, body, now)
        created == First({k \in 1..Len(stored) : stored[k].userId = user_id})
    IN  /\ req' = r
        /\ emitted' = <<>>
        /\ registered' = registered
        /\ IF cu = 0
           THEN /\ resp' = Response(401, "User not found")
                /\ UNCHANGED <<db, issued, clock>>
           ELSE IF User[cu].role # "PATIENT"
           THEN /\ resp' = Response(403, "Patient access required")
                /\ UNCHANGED <<db, issued, clock>>
           ELSE /\ clock <= MaxClock
                /\ clock' = clock + 1
                /\ PatientProfile' = EnsurePatientProfile(PatientProfile, user_id, now)
                /\ PatientLocation' = stored
                /\ resp' = [Response(201, "") EXCEPT !.userId = user_id,
                                                     !.items = <<SerializeLocation(stored[created])>>]
                /\ UNCHANGED <<User, PatientCaregiverLink, Alert, Notification, issued>>

(***************************************************************************)
(* routers_patients.py: POST /patients/connect-caregiver                   *)
(***************************************************************************)
\* str.strip(): without the leading and trailing blanks
RECURSIVE Strip(_)
Strip(s) ==
    IF s = <<>> THEN s
    ELSE IF Head(s) = " " THEN Strip(Tail(s))
    ELSE IF s[Len(s)] = " " THEN Strip(SubSeq(s, 1, Len(s) - 1))
    ELSE s

\* "@" in s
HasAt(s) == \E i \in 1..Len(s) : s[i] = "@"

\* one pattern character against one character, under the "i" option: "." is any
\* character, any other character is itself in either case
CharMatches(p, c) == p = "." \/ LowerChar(p) = LowerChar(c)

\* the pattern matches text at offset k (0-based), character by character
MatchesAt(pattern, text, k) ==
    /\ k + Len(pattern) <= Len(text)
    /\ \A i \in 1..Len(pattern) : CharMatches(pattern[i], text[k + i])

\* {"$regex": f"^{pattern}$", "$options": "i"}
RegexFull(pattern, text) == Len(pattern) = Len(text) /\ MatchesAt(pattern, text, 0)

\* {"$regex": pattern, "$options": "i"}: the pattern is found somewhere in text
RegexSearch(pattern, text) == \E k \in 0..Len(text) : MatchesAt(pattern, text, k)

\* variant: the whole e-mail is tried first, then a part of the e-mail, then the id;
\* the first of them that some caregiver matches is the query
CaregiverQuery_FirstThatMatches(caregiver_code, u) ==
    LET caregivers == {k \in 1..Len(User) : User[k].role = "CAREGIVER"}
    IN  /\ u.role = "CAREGIVER"
        /\ IF \E k \in caregivers : RegexFull(caregiver_code, User[k].email)
           THEN RegexFull(caregiver_code, u.email)
           ELSE IF \E k \in caregivers : RegexSearch(caregiver_code, User[k].email)
           THEN RegexSearch(caregiver_code, u.email)
           ELSE ObjectIdValid(caregiver_code) /\ u._id = ObjectId(caregiver_code)

\* lines 135-151: does the query built from caregiver_code match user u
CaregiverQuery(caregiver_code, u) ==
    /\ u.role = "CAREGIVER"
    /\ IF HasAt(caregiver_code) THEN RegexFull(caregiver_code, u.email)
       ELSE IF Len(caregiver_code) = ObjectIdLen /\ ObjectIdValid(caregiver_code)
            THEN u._id = ObjectId(caregiver_code)
       ELSE RegexSearch(caregiver_code, u.email)

\* variant: the existing-link query has its two keys the wrong way round
ExistingLink_KeysSwapped(patient_id, caregiver_id) ==
    First({k \in 1..Len(PatientCaregiverLink) :
              /\ PatientCaregiverLink[k].patientUserId = caregiver_id
              /\ PatientCaregiverLink[k].caregiverUserId = patient_id})

\* lines 173-176: the position of the link of the pair, 0 for none
ExistingLink(patient_id, caregiver_id) ==
    First({k \in 1..Len(PatientCaregiverLink) :
              /\ PatientCaregiverLink[k].patientUserId = patient_id
              /\ PatientCaregiverLink[k].caregiverUserId = caregiver_id})

\* lines 188-194
LinkDoc(k, patient_id, caregiver_id, now) ==
    [_id |-> DocId("9", k), patientUserId |-> patient_id, caregiverUserId |-> caregiver_id,
     status |-> "ACTIVE", createdAt |-> now, updatedAt |-> now]

connect_to_caregiver(r) ==
    LET cu == get_current_user(r.auth)
        patient_id == Str(User[cu]._id)
        caregiver_code == Strip(r.code)
        caregiver == First({k \in 1..Len(User) : CaregiverQuery(caregiver_code, User[k])})
        caregiver_id == Str(User[caregiver]._id)
        now == clock
        unchanged == UNCHANGED <<db, issued, clock>>
    IN  /\ req' = r
        /\ emitted' = <<>>
        /\ registered' = registered
        /\ IF cu = 0
           THEN resp' = Response(401, "User not found") /\ unchanged
           ELSE IF User[cu].role # "PATIENT"
           THEN resp' = Response(403, "Patient access required") /\ unchanged
           ELSE IF caregiver = 0
           THEN resp' = Response(404, "Caregiver not found") /\ unchanged
           ELSE IF caregiver_id = patient_id
           THEN resp' = Response(400, "You cannot connect to yourself as a caregiver") /\ unchanged
           ELSE IF ExistingLink(patient_id, caregiver_id) # 0
           THEN /\ resp' = [Response(200, "ALREADY_CONNECTED") EXCEPT !.userId = caregiver_id]
                /\ unchanged
           ELSE /\ clock <= MaxClock
                /\ clock' = clock + 1
                /\ PatientCaregiverLink' =
                       Append(PatientCaregiverLink,
                              LinkDoc(Len(PatientCaregiverLink) + 1, patient_id, caregiver_id, now))
                /\ resp' = [Response(200, "CONNECTED") EXCEPT !.userId = caregiver_id]
                /\ UNCHANGED <<User, PatientLocation, PatientProfile, Alert, Notification, issued>>

(***************************************************************************)
(* routers_patients.py: GET /patients/me/caregivers                        *)
(***************************************************************************)
\* lines 219-239: one entry per ACTIVE link of the patient whose caregiver exists
CaregiverListing(links, patient_id) ==
    LET active == ToList(SelectSeq(links,
                     LAMBDA l : l.patientUserId = patient_id /\ l.status = "ACTIVE"), LinkListLimit)
        known == SelectSeq(active, LAMBDA l : Truthy(l.caregiverUserId)
                                              /\ ObjectIdValid(l.caregiverUserId)
                                              /\ UserByOid(ObjectId(l.caregiverUserId)) # 0)
    IN  [k \in 1..Len(known) |->
            LET u == User[UserByOid(ObjectId(known[k].caregiverUserId))]
            IN  [id |-> Str(u._id), name |-> u.name, email |-> u.email,
                 connectedAt |-> known[k].createdAt]]

MyCaregivers(patient_id) == CaregiverListing(PatientCaregiverLink, patient_id)

get_my_caregivers(r) ==
    LET cu == get_current_user(r.auth)
    IN  /\ req' = r
        /\ emitted' = <<>>
        /\ UNCHANGED <<db, issued, registered, clock>>
        /\ IF cu = 0
           THEN resp' = Response(401, "User not found")
           ELSE IF User[cu].role # "PATIENT"
           THEN resp' = Response(403, "Patient access required")
           ELSE resp' = [Response(200, "") EXCEPT !.userId = Str(User[cu]._id),
                                                  !.items = MyCaregivers(Str(User[cu]._id))]

(***************************************************************************)
(* routers_sos.py: POST /sos, one step for every await.  Coroutines of     *)
(* several requests run on one event loop and interleave at their awaits.  *)
(***************************************************************************)
\* the requests in progress at a time
Procs == {1, 2}

\* the local variables of handle_sos; served is the history of the responses sent
IdleProc ==
    [pc |-> "idle", r |-> Request("none"), id |-> ResolveIdentity(Request("none")),
     now |-> 0, caregiver_ids |-> <<>>, loc |-> <<>>, created |-> 0, fault |-> "",
     alert |-> <<>>, resp |-> Response(0, ""), served |-> <<>>, caregiver |-> 0]

(***************************************************************************)
(* routers_alerts.py: POST /alerts/{alert_id}/ack                          *)
(***************************************************************************)
\* an exception no handler catches: Starlette answers 500
InternalServerError == Response(500, "Internal Server Error")

\* the Alert document with the given _id, 0 for none
AlertByOid(oid) == First({k \in 1..Len(Alert) : Alert[k]._id = oid})

\* variant: the update flips the flag instead of setting it
SetAcknowledged_Toggles(alerts, k) == [alerts EXCEPT ![k].isAcknowledged = ~@]

\* find_one_and_update({"_id": oid}, {"$set": {"isAcknowledged": True}})
SetAcknowledged(alerts, k) == [alerts EXCEPT ![k].isAcknowledged = TRUE]

\* lines 65-78.  ObjectId(alert_id) is evaluated outside any try: bson's InvalidId
\* leaves the handler
acknowledge_alert(r) ==
    LET cu == get_current_user(r.auth)
        k == AlertByOid(ObjectId(r.alertId))
    IN  /\ req' = r
        /\ emitted' = <<>>
        /\ UNCHANGED <<User, PatientCaregiverLink, PatientLocation, PatientProfile,
                       Notification, issued, registered, clock>>
        /\ IF cu = 0
           THEN resp' = Response(401, "User not found") /\ Alert' = Alert
           ELSE IF ~ObjectIdValid(r.alertId)
           THEN resp' = InternalServerError /\ Alert' = Alert
           ELSE IF k = 0
           THEN resp' = Response(404, "Not found") /\ Alert' = Alert
           ELSE /\ Alert' = SetAcknowledged(Alert, k)
                /\ resp' = [Response(200, "") EXCEPT
                              !.items = <<SerializeAlert(SetAcknowledged(Alert, k)[k])>>]

\* lines 48-56: the document of POST /alerts; severity falls back to "INFO"
ManualAlertDoc(k, body, now) ==
    [_id |-> DocId("e", k), recipientId |-> body.recipientId, title |-> body.title,
     message |-> body.message, type |-> body.type,
     severity |-> IF body.severity = "" THEN "INFO" ELSE body.severity,
     isAcknowledged |-> FALSE, createdAt |-> now]

\* line 59: serialize_mongo_document of that document
SerializeManualAlert(doc) ==
    [id |-> Str(doc._id), recipientId |-> doc.recipientId, title |-> doc.title,
     message |-> doc.message, type |-> doc.type, severity |-> doc.severity,
     isAcknowledged |-> doc.isAcknowledged, createdAt |-> ConvertToIst(doc.createdAt)]

\* line 44: an empty recipientId, title, message or type
MissingFields(body) ==
    body.recipientId = <<>> \/ body.title = "" \/ body.message = "" \/ body.type = ""

\* lines 39-62: store the alert, read it back, hand the emit to a background task
\* and return the stored alert
create_alert(r) ==
    LET cu == get_current_user(r.auth)
        body == r.alert[1]
        now == clock
        doc == ManualAlertDoc(Len(Alert) + 1, body, now)
    IN  /\ req' = r
        /\ UNCHANGED <<User, PatientCaregiverLink, PatientLocation, PatientProfile,
                       Notification, issued, registered>>
        /\ IF cu = 0
           THEN resp' = Response(401, "User not found") /\ emitted' = <<>>
                /\ UNCHANGED <<Alert, clock>>
           ELSE IF MissingFields(body)
           THEN resp' = Response(400, "Missing fields") /\ emitted' = <<>>
                /\ UNCHANGED <<Alert, clock>>
           ELSE /\ clock <= MaxClock
                /\ clock' = clock + 1
                /\ Alert' = Append(Alert, doc)
                /\ emitted' = <<emit_alert_new(body.recipientId, SerializeManualAlert(doc))>>
                /\ resp' = [Response(201, "") EXCEPT !.items = <<SerializeManualAlert(doc)>>]

(***************************************************************************)
(* routers_users.py: GET /users/me/patients                                *)
(***************************************************************************)
\* lines 107-127: the patient's record with the greatest recordedAt, as the
\* latestLocation entry of the listing; none when the patient has no record
LatestLocationEntry(locations, patient_id) ==
    LET i == FirstLatest(locations, {k \in 1..Len(locations) : locations[k].userId = patient_id})
    IN  IF i = 0 THEN <<>>
        ELSE <<[latitude |-> locations[i].latitude, longitude |-> locations[i].longitude,
                recordedAt |-> locations[i].recordedAt, accuracy |-> locations[i].accuracy,
                battery |-> locations[i].battery]>>

\* lines 93-131: one entry per ACTIVE link of the caregiver whose patient exists
PatientListing(links, locations, caregiver_id) ==
    LET active == ToList(SelectSeq(links,
                     LAMBDA l : l.caregiverUserId = caregiver_id /\ l.status = "ACTIVE"), LinkListLimit)
        known == SelectSeq(active, LAMBDA l : Truthy(l.patientUserId)
                                              /\ ObjectIdValid(l.patientUserId)
                                              /\ UserByOid(ObjectId(l.patientUserId)) # 0)
    IN  [k \in 1..Len(known) |->
            LET u == User[UserByOid(ObjectId(known[k].patientUserId))]
            IN  [id |-> Str(u._id), name |-> u.name, email |-> u.email,
                 connectedAt |-> known[k].createdAt,
                 latestLocation |-> LatestLocationEntry(locations, known[k].patientUserId)]]

(***************************************************************************)
(* auth.py: POST /auth/register, POST /auth/login; routers_users.py:       *)
(* GET /users/me, GET /users/me/patients                                   *)
(***************************************************************************)
\* bcrypt: the hash of a password, and whether a password fits a hash
_hash_password(password) == <<"$", "2", "b", "$">> \o password
_verify_password(password, hashed) == hashed = _hash_password(password)

\* find_one({"email": email}): the position of the first user with exactly that
\* e-mail, 0 for none
UserByEmail(email) == First({i \in 1..Len(User) : User[i].email = email})

\* auth.py lines 80-96: the user as UserInDB; a record without a role gets CAREGIVER
_get_user_by_email(email) ==
    LET i == UserByEmail(email)
    IN  IF i = 0 THEN <<>>
        ELSE <<[id |-> Str(User[i]._id), email |-> User[i].email,
                passwordHash |-> User[i].passwordHash, name |-> User[i].name,
                role |-> IF User[i].role \in {Absent, ""} THEN "CAREGIVER" ELSE User[i].role]>>

\* auth.py lines 201-214
login(r) ==
    LET body == r.body[1]
        user == _get_user_by_email(body.email)
    IN  /\ req' = r
        /\ emitted' = <<>>
        /\ UNCHANGED <<db, issued, registered, clock>>
        /\ IF user = <<>> \/ ~_verify_password(body.password, user[1].passwordHash)
           THEN resp' = Response(401, "Invalid credentials")
           ELSE resp' = [Response(200, "") EXCEPT
                           !.userId = user[1].id,
                           !.items = <<[id |-> user[1].id, email |-> user[1].email,
                                        name |-> user[1].name, role |-> user[1].role]>>]

\* auth.py lines 132-198: role is req.role or "CAREGIVER"
register(r) ==
    LET body == r.body[1]
        role == IF body.role = "" THEN "CAREGIVER" ELSE body.role
        id == Pad(<<"0", DigitChar(Len(User) + 1)>>)
        doc == [NewUser(id, body.email, body.name, role) EXCEPT !.createdAt = clock,
                                                                 !.updatedAt = clock]
                  @@ [passwordHash |-> _hash_password(body.password)]
    IN  /\ req' = r
        /\ emitted' = <<>>
        /\ UNCHANGED <<PatientCaregiverLink, PatientLocation, PatientProfile, Alert,
                       Notification, issued, registered>>
        /\ IF UserByEmail(body.email) # 0
           THEN resp' = Response(409, "Email already in use") /\ UNCHANGED <<User, clock>>
           ELSE /\ clock <= MaxClock
                /\ clock' = clock + 1
                /\ User' = Append(User, doc)
                /\ resp' = [Response(201, "") EXCEPT
                              !.userId = Str(id),
                              !.items = <<[id |-> Str(id), email |-> body.email,
                                           name |-> body.name, role |-> role]>>]

\* routers_users.py lines 12-24: the caller's record, read again and returned with
\* user.get("role")
get_me(r) ==
    LET cu == get_current_user(r.auth)
    IN  /\ req' = r
        /\ emitted' = <<>>
        /\ UNCHANGED <<db, issued, registered, clock>>
        /\ IF cu = 0
           THEN resp' = Response(401, "User not found")
           ELSE resp' = [Response(200, "") EXCEPT
                           !.userId = Str(User[cu]._id),
                           !.items = <<[id |-> Str(User[cu]._id), email |-> User[cu].email,
                                        name |-> User[cu].name, role |-> User[cu].role]>>]

\* routers_users.py lines 81-131, behind auth.get_current_caregiver (lines 125-129)
get_my_patients(r) ==
    LET cu == get_current_user(r.auth)
    IN  /\ req' = r
        /\ emitted' = <<>>
        /\ UNCHANGED <<db, issued, registered, clock>>
        /\ IF cu = 0
           THEN resp' = Response(401, "User not found")
           ELSE IF User[cu].role # "CAREGIVER"
           THEN resp' = Response(403, "Caregiver access required")
           ELSE resp' = [Response(200, "") EXCEPT
                           !.userId = Str(User[cu]._id),
                           !.items = PatientListing(PatientCaregiverLink, PatientLocation,
                                                    Str(User[cu]._id))]

(***************************************************************************)
(* routers_patients.py: POST /patients/sos; routers_alerts.py: GET /alerts *)
(***************************************************************************)
\* db.serialize_mongo_document: _id becomes id, a datetime its IST string, the other
\* fields stay; a field the document lacks is lacking in the result
SerializeDocument(doc) ==
    [f \in (DOMAIN doc \ {"_id"}) \cup {"id"} |->
        IF f = "id" THEN Str(doc._id)
        ELSE IF f = "createdAt" THEN ConvertToIst(doc[f])
        ELSE doc[f]]

\* routers_patients.py lines 270-281: the document has no recipientId
PatientAlertDoc(k, patient_id, patient_name, caregiver_ids, loc, now) ==
    [_id |-> DocId("e", k),
     type |-> "SOS", severity |-> "CRITICAL", title |-> patient_name,
     message |-> <<patient_name>>, patientUserId |-> patient_id,
     caregiverUserIds |-> caregiver_ids,
     latitude |-> LocationField(loc, "latitude"), longitude |-> LocationField(loc, "longitude"),
     isAcknowledged |-> FALSE, createdAt |-> now]

\* routers_patients.py lines 242-292, behind auth.get_current_patient: the links
\* and the location are read, the Alert is stored; no Notification is written and
\* nothing is emitted
send_sos_alert(r) ==
    LET cu == get_current_user(r.auth)
    IN  /\ req' = r
        /\ emitted' = <<>>
        /\ UNCHANGED <<issued, registered>>
        /\ IF cu = 0
           THEN resp' = Response(401, "User not found") /\ UNCHANGED <<db, clock>>
           ELSE IF User[cu].role # "PATIENT"
           THEN resp' = Response(403, "Patient access required") /\ UNCHANGED <<db, clock>>
           ELSE LET patient_id == Str(User[cu]._id)
                    caregiver_ids == CaregiverIds(patient_id)
                    alert_doc == PatientAlertDoc(Len(Alert) + 1, patient_id, User[cu].name,
                                                 caregiver_ids, LatestLocationDoc(patient_id), clock)
                    alert == SerializeDocument(alert_doc)
                IN  /\ clock <= MaxClock
                    /\ clock' = clock + 1
                    /\ Alert' = Append(Alert, alert_doc)
                    /\ resp' = [Response(200, "SOS alert sent successfully") EXCEPT
                                  !.status = "SENT",
                                  !.alertId = <<alert.id>>,
                                  !.caregiversNotified = <<Len(caregiver_ids)>>]
                    /\ UNCHANGED <<User, PatientCaregiverLink, PatientLocation,
                                   PatientProfile, Notification>>

\* find(where): the positions of the Alerts the filter takes; a document without
\* the field does not match a value
AlertsWhere(alerts, recipientId) ==
    {k \in 1..Len(alerts) :
        ~Truthy(recipientId)
          \/ ("recipientId" \in DOMAIN alerts[k] /\ alerts[k].recipientId = recipientId)}

\* sort("createdAt", -1) of the documents at those positions
RECURSIVE NewestFirst(_, _)
NewestFirst(alerts, positions) ==
    IF positions = {} THEN <<>>
    ELSE LET k == First({i \in positions :
                           \A j \in positions : alerts[j].createdAt <= alerts[i].createdAt})
         IN  <<alerts[k]>> \o NewestFirst(alerts, positions \ {k})

\* routers_alerts.py lines 23-36
list_alerts(r) ==
    LET cu == get_current_user(r.auth)
        found == NewestFirst(Alert, AlertsWhere(Alert, r.recipientId))
    IN  /\ req' = r
        /\ emitted' = <<>>
        /\ UNCHANGED <<db, issued, registered, clock>>
        /\ IF cu = 0
           THEN resp' = Response(401, "User not found")
           ELSE resp' = [Response(200, "") EXCEPT
                           !.items = [k \in 1..Len(found) |-> SerializeDocument(found[k])]]

(***************************************************************************)
(* The requests the handlers are driven with.                              *)
(***************************************************************************)
\* P1's id as a client may write it: the same 12 bytes in upper-case hexadecimal
P1Upper == Pad(<<"A", "1">>)
\* a well-formed id of no user, and a text that is no ObjectId
GhostId == Pad(<<"f", "f">>)
BadId == <<"n", "o", "-", "i", "d">>
\* a token value the token source never produces
StrayToken == <<"z", "z", "z">>

\* the POST /sos requests: deviceToken in the body and in the query, userId in the
\* body and in the query
SosRequest(bt, qt, bu, qu) ==
    [Request("sos") EXCEPT !.bodyToken = bt, !.queryToken = qt,
                           !.bodyUserId = bu, !.queryUserId = qu]

SosRequests ==
    { SosRequest(TokenOf(1), None, None, None),
      SosRequest(None, TokenOf(2), None, None),
      SosRequest(StrayToken, None, None, None),
      SosRequest(StrayToken, TokenOf(1), None, P2),
      SosRequest(TokenOf(1), None, None, P2),
      SosRequest(None, None, P1, None),
      SosRequest(None, None, P1Upper, None),
      SosRequest(<<>>, None, P2, P1),
      SosRequest(None, None, GhostId, None),
      SosRequest(None, None, BadId, None),
      SosRequest(<<>>, None, None, <<>>) }

VoiceRequest(bt, qt) == [Request("voice") EXCEPT !.bodyToken = bt, !.queryToken = qt]

VoiceRequests ==
    { VoiceRequest(TokenOf(1), None), VoiceRequest(None, TokenOf(2)),
      VoiceRequest(StrayToken, TokenOf(1)), VoiceRequest(<<>>, None) }

RegisterRequests == {[Request("register") EXCEPT !.auth = a] : a \in {P1, P2}}

\* latitude and longitude in tenths of a degree
PingA ==
    [latitude |-> 129, longitude |-> 776, accuracy |-> <<5>>, battery |-> <<80>>,
     recordedAt |-> <<>>]
PingB ==
    [latitude |-> 130, longitude |-> 777, accuracy |-> <<>>, battery |-> <<>>,
     recordedAt |-> <<0>>]

PingRequest(a, p) == [Request("ping") EXCEPT !.auth = a, !.ping = <<p>>]

PingRequests == {PingRequest(P1, PingA), PingRequest(P1, PingB), PingRequest(P2, PingA),
                 PingRequest(C1, PingA)}

ConnectRequest(a, c) == [Request("connect") EXCEPT !.auth = a, !.code = c]

\* by e-mail (as typed: blanks around it, capitals), by id, the patient's own e-mail
\* and id, an e-mail of nobody, the beginning of an e-mail up to the "@", a part
\* of a name without "@", and a caregiver as the caller
ConnectRequests ==
    { ConnectRequest(P1, <<" ", "C", "1", "@", "X", " ">>),
      ConnectRequest(P1, C2),
      ConnectRequest(P1, <<"p", "1", "@", "x">>),
      ConnectRequest(P1, P1),
      ConnectRequest(P1, <<"q", "@", "x">>),
      ConnectRequest(P1, <<"c", "1", "@">>),
      ConnectRequest(P2, <<"C", "2">>),
      ConnectRequest(P2, <<"c", "1", "@", "x">>),
      ConnectRequest(C1, <<"c", "2", "@", "x">>) }

CaregiversRequests == {[Request("caregivers") EXCEPT !.auth = a] : a \in {P1, P2}}

AckRequest(a, id) == [Request("ack") EXCEPT !.auth = a, !.alertId = id]

\* the first and the second alert stored, a well-formed id of no alert, and a text
\* that is no ObjectId
AckRequests ==
    { AckRequest(C1, DocId("e", 1)), AckRequest(C1, DocId("e", 2)),
      AckRequest(C1, GhostId), AckRequest(C1, BadId) }

\* the POST /alerts requests: the caller and the AlertCreate body
AlertCreate(recipientId, title, message, type, severity) ==
    [recipientId |-> recipientId, title |-> title, message |-> message, type |-> type,
     severity |-> severity]

CreateRequest(a, body) == [Request("alert") EXCEPT !.auth = a, !.alert = <<body>>]

CreateRequests ==
    {CreateRequest(C1, AlertCreate(P1, "Fall", "Fall detected", "FALL", "")),
     CreateRequest(C1, AlertCreate(P2, "Fence", "Left the safe zone", "GEOFENCE", "HIGH")),
     CreateRequest(C1, AlertCreate(P1, "", "Fall detected", "FALL", "")),
     CreateRequest(GhostId, AlertCreate(P1, "Fall", "Fall detected", "FALL", ""))}

(***************************************************************************)
(* The specification.                                                      *)
(***************************************************************************)
Init ==
    /\ User = InitUsers
    /\ PatientCaregiverLink = <<>>
    /\ PatientLocation = <<>>
    /\ PatientProfile = <<>>
    /\ Alert = <<>>
    /\ Notification = <<>>
    /\ issued = 0
    /\ registered = {}
    /\ clock = 1
    /\ req = Request("none")
    /\ resp = Response(0, "")
    /\ emitted = <<>>
    /\ proc = [p \in Procs |-> IdleProc]
    /\ tasks = <<>>
    /\ rooms = {}
    /\ delivered = <<>>

\* no request is being served: the last response has been sent
Idle == req = Request("none")

TriggerSOS ==
    Idle /\ UNCHANGED <<proc, realtime>> /\ \E r \in SosRequests : handle_sos(r)
TriggerVoiceToggle ==
    Idle /\ UNCHANGED <<proc, realtime>> /\ \E r \in VoiceRequests : voice_toggle(r)
RegisterDevice ==
    Idle /\ UNCHANGED <<proc, realtime>> /\ \E r \in RegisterRequests : register_device(r)
RecordLocation ==
    Idle /\ UNCHANGED <<proc, realtime>> /\ \E r \in PingRequests : ping_my_location(r)
LinkPatientToCaregiver ==
    Idle /\ UNCHANGED <<proc, realtime>> /\ \E r \in ConnectRequests : connect_to_caregiver(r)
ListCaregiversForPatient ==
    Idle /\ UNCHANGED <<proc, realtime>> /\ \E r \in CaregiversRequests : get_my_caregivers(r)
AcknowledgeAlert ==
    Idle /\ UNCHANGED <<proc, realtime>> /\ \E r \in AckRequests : acknowledge_alert(r)

\* main.py, RequestLoggingMiddleware.dispatch: the response goes back to the client
\* and the background tasks of the request have run; the next request is served
Respond ==
    /\ ~Idle
    /\ req' = Request("none")
    /\ resp' = Response(0, "")
    /\ emitted' = <<>>
    /\ UNCHANGED <<db, issued, registered, clock, proc, realtime>>

Next ==
    \/ TriggerSOS
    \/ TriggerVoiceToggle
    \/ RegisterDevice
    \/ RecordLocation
    \/ LinkPatientToCaregiver
    \/ ListCaregiversForPatient
    \/ AcknowledgeAlert
    \/ Respond

Spec == Init /\ [][Next]_vars

(***************************************************************************)
(* POST /sos as interleaved coroutines.  The store starts as the handlers  *)
(* of Spec leave it: P1 has registered a device, linked up to two          *)
(* caregivers and recorded a location, all at time 0, before the behaviour *)
(* starts.                                                                 *)
(***************************************************************************)
\* POST /sos requests received in a behaviour
MaxTriggers == 2

\* P1 after register-device
StepUsers == PushDevice(InitUsers, P1, [token |-> TokenOf(1), registeredAt |-> 0], 0)

\* the links of P1 after connect-caregiver to C1 and to C2
StepLinks == <<LinkDoc(1, P1, C1, 0), LinkDoc(2, P1, C2, 0)>>

StepInit ==
    /\ User = StepUsers
    /\ \E n \in 0..2 : PatientCaregiverLink = SubSeq(StepLinks, 1, n)
    /\ PatientLocation = UpsertLocation(<<>>, P1, PingA, 0)
    /\ PatientProfile = EnsurePatientProfile(<<>>, P1, 0)
    /\ Alert = <<>>
    /\ Notification = <<>>
    /\ issued = 1
    /\ registered = {[token |-> TokenOf(1), user |-> P1]}
    /\ clock = 1
    /\ req = Request("none")
    /\ resp = Response(0, "")
    /\ emitted = <<>>
    /\ proc = [p \in Procs |-> IdleProc]
    /\ tasks = <<>>
    /\ rooms = {}
    /\ delivered = <<>>

\* by P1's token, by P1's id as str() writes it and in upper case, by P2's id, and
\* by a token of nobody
StepSosRequests ==
    { SosRequest(TokenOf(1), None, None, None),
      SosRequest(None, None, P1, None),
      SosRequest(None, None, P1Upper, None),
      SosRequest(None, None, None, P2),
      SosRequest(StrayToken, None, None, None) }

\* requests received so far
Started ==
    LET n(p) == Len(proc[p].served) + (IF proc[p].pc = "idle" THEN 0 ELSE 1)
    IN  n(1) + n(2)

\* what the steps of POST /sos leave alone besides the store and the coroutines
StepFrame == UNCHANGED <<issued, registered, req, resp, emitted, rooms, delivered>>

\* lines 185-229: the request arrives and the user is looked up; an HTTPException
\* ends the request
SosReceive(p, r) ==
    LET id == ResolveIdentity(r)
    IN  /\ proc[p].pc = "idle"
        /\ Started < MaxTriggers
        /\ proc' = [proc EXCEPT ![p] =
               [IdleProc EXCEPT !.served = proc[p].served, !.r = r, !.id = id,
                                !.pc = IF id.ok THEN "status" ELSE "done",
                                !.resp = IF id.ok THEN Response(0, "")
                                         ELSE Response(id.code, id.detail)]]
        /\ UNCHANGED <<db, clock, tasks>>
        /\ StepFrame

\* lines 232-242: await update_one status emergency
SosSetEmergency(p) ==
    /\ proc[p].pc = "status"
    /\ User' = SetEmergency(User, proc[p].id.oid, clock)
    /\ clock' = clock + 1
    /\ proc' = [proc EXCEPT ![p].now = clock, ![p].pc = "links"]
    /\ UNCHANGED <<PatientCaregiverLink, PatientLocation, PatientProfile, Alert,
                   Notification, tasks>>
    /\ StepFrame

\* lines 252-257: await find(...).to_list(length=100)
SosFindLinks(p) ==
    /\ proc[p].pc = "links"
    /\ proc' = [proc EXCEPT ![p].caregiver_ids = CaregiverIds(proc[p].id.user_id),
                            ![p].pc = "location"]
    /\ UNCHANGED <<db, clock, tasks>>
    /\ StepFrame

\* lines 260-263: await find_one latest location
SosFindLocation(p) ==
    /\ proc[p].pc = "location"
    /\ proc' = [proc EXCEPT ![p].loc = LatestLocationDoc(proc[p].id.user_id),
                            ![p].pc = "notify"]
    /\ UNCHANGED <<db, clock, tasks>>
    /\ StepFrame

\* lines 267-281: one turn of the loop, await insert_one
SosInsertNotification(p) ==
    LET l == proc[p]
        user_raw == User[l.id.idx]
    IN  /\ l.pc = "notify"
        /\ l.created < Len(l.caregiver_ids)
        /\ Notification' =
               Append(Notification,
                      NotificationDoc(Len(Notification) + 1, l.caregiver_ids[l.created + 1],
                                      l.id.user_id, user_raw.name, l.loc, l.now))
        /\ proc' = [proc EXCEPT ![p].created = l.created + 1]
        /\ UNCHANGED <<User, PatientCaregiverLink, PatientLocation, PatientProfile,
                       Alert, clock, tasks>>
        /\ StepFrame

\* lines 324-334: the success response
SosSuccess(l, alert) ==
    [Response(200, "SOS received and user status updated to emergency")
       EXCEPT !.userId = l.id.user_id, !.oid = l.id.oid, !.status = "emergency",
              !.caregiversNotified = <<l.created>>,
              !.alertId = IF alert = <<>> THEN <<>> ELSE <<alert[1].id>>]

\* variant: the Alert is built from the links and the location as they are when it
\* is stored
SosInsertAlert_ReadsAgain(p) ==
    LET l == proc[p]
        user_raw == User[l.id.idx]
        alert_doc == AlertDoc(Len(Alert) + 1, l.id.user_id, user_raw.name, user_raw.email,
                              CaregiverIds(l.id.user_id), LatestLocationDoc(l.id.user_id),
                              l.now)
        alert == SerializeAlert(alert_doc)
    IN  /\ l.pc = "notify"
        /\ l.created = Len(l.caregiver_ids)
        /\ Alert' = Append(Alert, alert_doc)
        /\ tasks' = tasks \o AlertEmits(l.id.user_id, l.caregiver_ids, alert)
        /\ proc' = [proc EXCEPT ![p].alert = <<alert>>, ![p].pc = "done",
                                ![p].resp = SosSuccess(l, <<alert>>)]
        /\ UNCHANGED <<User, PatientCaregiverLink, PatientLocation, PatientProfile,
                       Notification, clock>>
        /\ StepFrame

\* lines 285-309 and 324-334: after the loop, await insert_one and find_one of the
\* Alert (no other coroutine writes that document in between), the emits, and the
\* response
SosInsertAlert(p) ==
    LET l == proc[p]
        user_raw == User[l.id.idx]
        alert_doc == AlertDoc(Len(Alert) + 1, l.id.user_id, user_raw.name, user_raw.email,
                              l.caregiver_ids, l.loc, l.now)
        alert == SerializeAlert(alert_doc)
    IN  /\ l.pc = "notify"
        /\ l.created = Len(l.caregiver_ids)
        /\ Alert' = Append(Alert, alert_doc)
        /\ tasks' = tasks \o AlertEmits(l.id.user_id, l.caregiver_ids, alert)
        /\ proc' = [proc EXCEPT ![p].alert = <<alert>>, ![p].pc = "done",
                                ![p].resp = SosSuccess(l, <<alert>>)]
        /\ UNCHANGED <<User, PatientCaregiverLink, PatientLocation, PatientProfile,
                       Notification, clock>>
        /\ StepFrame

\* the response is sent; the coroutine ends
SosSend(p) ==
    /\ proc[p].pc = "done"
    /\ proc' = [proc EXCEPT ![p] =
           [IdleProc EXCEPT !.served = Append(proc[p].served,
               [r |-> proc[p].r, id |-> proc[p].id, resp |-> proc[p].resp,
                caregiver_ids |-> proc[p].caregiver_ids, now |-> proc[p].now,
                fault |-> proc[p].fault, created |-> proc[p].created])]]
    /\ UNCHANGED <<db, clock, tasks>>
    /\ StepFrame

Receive == \E p \in Procs, r \in StepSosRequests : SosReceive(p, r)
SetStatus == \E p \in Procs : SosSetEmergency(p)
FindLinks == \E p \in Procs : SosFindLinks(p)
FindLocation == \E p \in Procs : SosFindLocation(p)
InsertNotification == \E p \in Procs : SosInsertNotification(p)
InsertAlert == \E p \in Procs : SosInsertAlert(p)
Send == \E p \in Procs : SosSend(p)

StepNext ==
    \/ Receive
    \/ SetStatus
    \/ FindLinks
    \/ FindLocation
    \/ InsertNotification
    \/ InsertAlert
    \/ Send

StepSpec == StepInit /\ [][StepNext]_vars

(***************************************************************************)
(* POST /sos with a store that may fail: an await on a write may raise.    *)
(***************************************************************************)
\* lines 338-343: except Exception -> HTTPException(500)
SosInternalError == Response(500, "Internal server error")

\* line 280 raises: nothing in the loop catches it, the handler's outer except
\* answers 500
SosInsertNotificationFails(p) ==
    /\ proc[p].pc = "notify"
    /\ proc[p].created < Len(proc[p].caregiver_ids)
    /\ proc' = [proc EXCEPT ![p].fault = "notification", ![p].pc = "done",
                            ![p].resp = SosInternalError]
    /\ UNCHANGED <<db, clock, tasks>>
    /\ StepFrame

\* line 299 raises: lines 307-309 log it and set alert = None; the response is the
\* success response with alertId None
SosInsertAlertFails(p) ==
    /\ proc[p].pc = "notify"
    /\ proc[p].created = Len(proc[p].caregiver_ids)
    /\ proc' = [proc EXCEPT ![p].fault = "alert", ![p].pc = "done",
                            ![p].resp = SosSuccess(proc[p], <<>>)]
    /\ UNCHANGED <<db, clock, tasks>>
    /\ StepFrame

(***************************************************************************)
(* realtime.py: rooms and background emits.                                *)
(***************************************************************************)
\* the Socket.IO connections
Sids == {"s1", "s2"}

\* the recipientId a client sends with joinRecipientRoom
JoinIds == {P1, P2, P1Upper}

\* lines 19-21: enter_room(sid, "recipient:" + recipientId)
joinRecipientRoom(sid, recipientId) ==
    /\ rooms' = rooms \cup {<<sid, Room(recipientId)>>}
    /\ UNCHANGED <<db, issued, registered, clock, req, resp, emitted, proc, tasks, delivered>>

\* variant: an emit reaches every connection that has joined any room
Members_AnyRoom(room) == {sid \in Sids : \E x \in rooms : x[1] = sid}

\* the connections in a room
Members(room) == {sid \in Sids : <<sid, room>> \in rooms}

\* the oldest background task runs: sio.emit(event, payload, room=room) sends the
\* event to every connection in the room at that moment; to none when it is empty
BackgroundEmit ==
    /\ tasks # <<>>
    /\ tasks' = Tail(tasks)
    /\ delivered' = Append(delivered, [task |-> Head(tasks), ok |-> TRUE,
                                       to |-> Members(Head(tasks).room)])
    /\ UNCHANGED <<db, issued, registered, clock, req, resp, emitted, proc, rooms>>

\* variant: a failed emit is put back on the queue to be tried again
BackgroundEmitFails_Requeued ==
    /\ tasks # <<>>
    /\ tasks' = Append(Tail(tasks), Head(tasks))
    /\ delivered' = Append(delivered, [task |-> Head(tasks), ok |-> FALSE, to |-> {}])
    /\ UNCHANGED <<db, issued, registered, clock, req, resp, emitted, proc, rooms>>

\* the oldest background task raises in sio.emit: the task ends, nobody awaits it
BackgroundEmitFails ==
    /\ tasks # <<>>
    /\ tasks' = Tail(tasks)
    /\ delivered' = Append(delivered, [task |-> Head(tasks), ok |-> FALSE, to |-> {}])
    /\ UNCHANGED <<db, issued, registered, clock, req, resp, emitted, proc, rooms>>

InsertNotificationFails == \E p \in Procs : SosInsertNotificationFails(p)
InsertAlertFails == \E p \in Procs : SosInsertAlertFails(p)

FaultNext ==
    \/ Receive
    \/ SetStatus
    \/ FindLinks
    \/ FindLocation
    \/ InsertNotification
    \/ InsertNotificationFails
    \/ InsertAlert
    \/ InsertAlertFails
    \/ Send
    \/ BackgroundEmit
    \/ BackgroundEmitFails

FaultSpec == StepInit /\ [][FaultNext]_vars

(***************************************************************************)
(* The handlers with the Socket.IO server behind them: an emit_* call      *)
(* starts a background task and returns, clients join rooms at any time,   *)
(* and the tasks run when the event loop gets to them.                     *)
(***************************************************************************)
\* sio.start_background_task(sio.emit, ...): the task is queued, nothing is awaited
start_background_task(queue, emits) == queue \o emits

\* POST /sos
RtTriggerSOS ==
    /\ Idle
    /\ Len(Alert) < MaxTriggers
    /\ \E r \in StepSosRequests : handle_sos(r)
    /\ tasks' = start_background_task(tasks, emitted')
    /\ UNCHANGED <<proc, rooms, delivered>>

\* POST /alerts
RtCreateAlert ==
    /\ Idle
    /\ Len(Alert) < MaxTriggers
    /\ \E r \in CreateRequests : create_alert(r)
    /\ tasks' = start_background_task(tasks, emitted')
    /\ UNCHANGED <<proc, rooms, delivered>>

\* a connected client sends joinRecipientRoom
JoinRecipientRoom == \E sid \in Sids, id \in JoinIds : joinRecipientRoom(sid, id)

RealtimeNext ==
    \/ RtTriggerSOS
    \/ RtCreateAlert
    \/ JoinRecipientRoom
    \/ BackgroundEmit
    \/ BackgroundEmitFails
    \/ Respond

RealtimeSpec == StepInit /\ [][RealtimeNext]_vars

(***************************************************************************)
(* POST /patients/connect-caregiver as interleaved coroutines: one step    *)
(* per await on the PatientCaregiverLink collection.  The collection has   *)
(* no unique index; db.py creates none.                                    *)
(***************************************************************************)
LinkFrame == UNCHANGED <<issued, registered, req, resp, emitted, realtime>>

\* lines 118-170: the dependencies and the caregiver lookup.  The User collection
\* is not written while links are made, so these awaits read one state of it
LinkReceive(p, r) ==
    LET cu == get_current_user(r.auth)
        caregiver == First({k \in 1..Len(User) : CaregiverQuery(Strip(r.code), User[k])})
        rejected == IF cu = 0 THEN Response(401, "User not found")
                    ELSE IF User[cu].role # "PATIENT" THEN Response(403, "Patient access required")
                    ELSE IF caregiver = 0 THEN Response(404, "Caregiver not found")
                    ELSE IF User[caregiver]._id = User[cu]._id
                    THEN Response(400, "You cannot connect to yourself as a caregiver")
                    ELSE Response(0, "")
    IN  /\ proc[p].pc = "idle"
        /\ Started < MaxTriggers
        /\ proc' = [proc EXCEPT ![p] =
               [IdleProc EXCEPT !.served = proc[p].served, !.r = r, !.caregiver = caregiver,
                                !.resp = rejected,
                                !.pc = IF rejected.code = 0 THEN "existing" ELSE "done"]]
        /\ UNCHANGED <<db, clock>>
        /\ LinkFrame

\* lines 173-185: await find_one of the pair's link
LinkFindExisting(p) ==
    LET l == proc[p]
        patient_id == Str(User[get_current_user(l.r.auth)]._id)
        caregiver_id == Str(User[l.caregiver]._id)
    IN  /\ l.pc = "existing"
        /\ proc' = IF ExistingLink(patient_id, caregiver_id) # 0
                   THEN [proc EXCEPT ![p].pc = "done",
                                     ![p].resp = [Response(200, "ALREADY_CONNECTED")
                                                    EXCEPT !.userId = caregiver_id]]
                   ELSE [proc EXCEPT ![p].pc = "insert"]
        /\ UNCHANGED <<db, clock>>
        /\ LinkFrame

\* lines 188-205: await insert_one of the link
LinkInsert(p) ==
    LET l == proc[p]
        patient_id == Str(User[get_current_user(l.r.auth)]._id)
        caregiver_id == Str(User[l.caregiver]._id)
    IN  /\ l.pc = "insert"
        /\ PatientCaregiverLink' =
               Append(PatientCaregiverLink,
                      LinkDoc(Len(PatientCaregiverLink) + 1, patient_id, caregiver_id, clock))
        /\ clock' = clock + 1
        /\ proc' = [proc EXCEPT ![p].pc = "done", ![p].now = clock,
                                ![p].resp = [Response(200, "CONNECTED")
                                               EXCEPT !.userId = caregiver_id]]
        /\ UNCHANGED <<User, PatientLocation, PatientProfile, Alert, Notification>>
        /\ LinkFrame

\* the response is sent; the coroutine ends
LinkSend(p) ==
    /\ proc[p].pc = "done"
    /\ proc' = [proc EXCEPT ![p] =
           [IdleProc EXCEPT !.served = Append(proc[p].served,
               [r |-> proc[p].r, resp |-> proc[p].resp, now |-> proc[p].now])]]
    /\ UNCHANGED <<db, clock>>
    /\ LinkFrame

ReceiveLink == \E p \in Procs, r \in ConnectRequests : LinkReceive(p, r)
FindExistingLink == \E p \in Procs : LinkFindExisting(p)
InsertLink == \E p \in Procs : LinkInsert(p)
SendLink == \E p \in Procs : LinkSend(p)

LinkNext ==
    \/ ReceiveLink
    \/ FindExistingLink
    \/ InsertLink
    \/ SendLink

LinkSpec == Init /\ [][LinkNext]_vars

(***************************************************************************)
(* Accounts: registration, login and the routes behind the bearer token,   *)
(* over a User collection that also holds a record written before roles    *)
(* existed (auth.py line 92: "Some legacy users may not have a role set"). *)
(***************************************************************************)
\* the legacy user's id
L1 == Pad(<<"e", "1">>)

Password == <<"p", "w">>

\* the users of Init with their password hashes, and the legacy record without role
AuthUsers ==
    [k \in 1..Len(InitUsers) |-> InitUsers[k] @@ [passwordHash |-> _hash_password(Password)]]
        \o <<NewUser(L1, <<"l", "1", "@", "x">>, "Old1", Absent)
                @@ [passwordHash |-> _hash_password(Password)]>>

AuthInit ==
    /\ User = AuthUsers
    /\ PatientCaregiverLink \in {<<>>, <<LinkDoc(1, P1, C1, 0)>>, <<LinkDoc(1, P1, L1, 0)>>}
    /\ PatientLocation = <<>>
    /\ PatientProfile = <<>>
    /\ Alert = <<>>
    /\ Notification = <<>>
    /\ issued = 0
    /\ registered = {}
    /\ clock = 1
    /\ req = Request("none")
    /\ resp = Response(0, "")
    /\ emitted = <<>>
    /\ proc = [p \in Procs |-> IdleProc]
    /\ tasks = <<>>
    /\ rooms = {}
    /\ delivered = <<>>

\* the bodies of POST /auth/register and POST /auth/login; role "" is a body
\* without role
RegisterBody(email, password, name, role) ==
    [email |-> email, password |-> password, name |-> name, role |-> role]
LoginBody(email, password) == [email |-> email, password |-> password]

RegisterAccountRequests ==
    {[Request("register-account") EXCEPT !.body = <<b>>] :
        b \in {RegisterBody(<<"n", "1", "@", "x">>, Password, "New1", ""),
               RegisterBody(<<"n", "2", "@", "x">>, Password, "New2", "PATIENT"),
               RegisterBody(<<"c", "1", "@", "x">>, Password, "Care1", "")}}

LoginRequests ==
    {[Request("login") EXCEPT !.body = <<b>>] :
        b \in {LoginBody(<<"l", "1", "@", "x">>, Password),
               LoginBody(<<"p", "1", "@", "x">>, Password),
               LoginBody(<<"n", "1", "@", "x">>, Password),
               LoginBody(<<"c", "1", "@", "x">>, <<"n", "o">>),
               LoginBody(<<"q", "@", "x">>, Password)}}

\* the bearer tokens: of the legacy user, of a caregiver, of a patient, of the first
\* account registered, and of nobody
BearerIds == {L1, C1, P1, Pad(<<"0", "6">>), GhostId}

MeRequests == {[Request("me") EXCEPT !.auth = a] : a \in BearerIds}
PatientsRequests == {[Request("patients") EXCEPT !.auth = a] : a \in BearerIds}

Register == Idle /\ UNCHANGED <<proc, realtime>> /\ \E r \in RegisterAccountRequests : register(r)
Login == Idle /\ UNCHANGED <<proc, realtime>> /\ \E r \in LoginRequests : login(r)
GetMe == Idle /\ UNCHANGED <<proc, realtime>> /\ \E r \in MeRequests : get_me(r)
ListPatientsForCaregiver ==
    Idle /\ UNCHANGED <<proc, realtime>> /\ \E r \in PatientsRequests : get_my_patients(r)

AuthNext ==
    \/ Register
    \/ Login
    \/ GetMe
    \/ ListPatientsForCaregiver
    \/ Respond

AuthSpec == AuthInit /\ [][AuthNext]_vars

(***************************************************************************)
(* The two SOS routes and the alert listing, one request at a time.        *)
(***************************************************************************)
PatientSosRequests == {[Request("patient-sos") EXCEPT !.auth = a] : a \in {P1, P2, C1, GhostId}}

ListAlertsRequests ==
    {[Request("alerts") EXCEPT !.auth = C1, !.recipientId = x] : x \in {P1, P2, P1Upper, None}}
        \cup {[Request("alerts") EXCEPT !.auth = GhostId, !.recipientId = P1]}

DeviceSOS ==
    /\ Idle
    /\ Len(Alert) < MaxTriggers
    /\ UNCHANGED <<proc, realtime>>
    /\ \E r \in StepSosRequests : handle_sos(r)

PatientSOS ==
    /\ Idle
    /\ Len(Alert) < MaxTriggers
    /\ UNCHANGED <<proc, realtime>>
    /\ \E r \in PatientSosRequests : send_sos_alert(r)

ListAlerts == Idle /\ UNCHANGED <<proc, realtime>> /\ \E r \in ListAlertsRequests : list_alerts(r)

SosRoutesNext ==
    \/ DeviceSOS
    \/ PatientSOS
    \/ ListAlerts
    \/ Respond

SosRoutesSpec == StepInit /\ [][SosRoutesNext]_vars

(***************************************************************************)
(* POST /sos coroutines with other requests served between their awaits:   *)
(* the patient links a caregiver, the patient's location is recorded.      *)
(***************************************************************************)
\* P1 links C2 by id; P1 sends a location other than the one stored at the start
OtherConnectRequests == {ConnectRequest(P1, C2)}
OtherPingRequests == {PingRequest(P1, PingB)}

LinkByOtherRequest ==
    /\ UNCHANGED <<proc, realtime>>
    /\ \E r \in OtherConnectRequests : connect_to_caregiver(r)

RecordLocationByOtherRequest ==
    /\ UNCHANGED <<proc, realtime>>
    /\ \E r \in OtherPingRequests : ping_my_location(r)

SnapshotNext ==
    \/ Receive
    \/ SetStatus
    \/ FindLinks
    \/ FindLocation
    \/ InsertNotification
    \/ InsertAlert
    \/ Send
    \/ LinkByOtherRequest
    \/ RecordLocationByOtherRequest

SnapshotSpec == StepInit /\ [][SnapshotNext]_vars

(***************************************************************************)
(* Properties.  A step of a handler leads from an idle state (the state    *)
(* before the request) to the state holding its request, its response and  *)
(* its emits.                                                              *)
(***************************************************************************)
\* the deviceToken and the userId a request carries (the body's before the query's)
CarriedToken(r) == PyOr(r.bodyToken, r.queryToken)
CarriedUserId(r) == PyOr(r.bodyUserId, r.queryUserId)

\* the step is a POST /sos that answered 200
SosServed == Idle /\ req'.op = "sos" /\ resp'.code = 200

\* the positions of the ACTIVE links of the user with _id p
ActiveLinksOf(p) ==
    {k \in 1..Len(PatientCaregiverLink) :
        /\ PatientCaregiverLink[k].patientUserId = Str(p)
        /\ PatientCaregiverLink[k].status = "ACTIVE"}

\* what a step appended to a collection
Added(before, after) == SubSeq(after, Len(before) + 1, Len(after))

\* a step published exactly one alert:new event, to the room of the user with _id p
OnePublishTo(p) ==
    /\ Len(emitted') = 1
    /\ emitted'[1].event = "alert:new"
    /\ emitted'[1].room = Room(Str(p))

\* C1: a served SOS of a patient with n >= 1 ACTIVE links stores exactly n
\* Notifications, one for each linked caregiver, exactly one Alert, and publishes
\* exactly one event to the patient's room.
C1_FanOutPerCaregiver ==
    [][SosServed =>
        LET p == resp'.oid
            linked == ActiveLinksOf(p)
            notes == Added(Notification, Notification')
        IN  Cardinality(linked) >= 1 =>
              /\ Len(notes) = Cardinality(linked)
              /\ \A k \in linked :
                    Cardinality({j \in 1..Len(notes) :
                        notes[j].userId = PatientCaregiverLink[k].caregiverUserId}) = 1
              /\ Len(Alert') = Len(Alert) + 1
              /\ OnePublishTo(p)]_vars

\* C2: a served SOS of a patient with no ACTIVE link stores no Notification, exactly
\* one Alert, and publishes exactly one event to the patient's room.
C2_NoCaregiverStillPublishes ==
    [][SosServed =>
        LET p == resp'.oid
        IN  ActiveLinksOf(p) = {} =>
              /\ Notification' = Notification
              /\ Len(Alert') = Len(Alert) + 1
              /\ OnePublishTo(p)]_vars

\* the state holds the response of a POST /sos or POST /sos/voice-toggle
TokenRouteAnswered == req.op \in {"sos", "voice"}

\* the users register-device has returned the token to
OwnersOf(token) == {e.user : e \in {x \in registered : x.token = token}}

\* C3: a request carrying a token that register-device returned to user P resolves
\* to P and to nobody else; a request carrying a token value that was never
\* returned is refused with 401 Invalid device token.
C3_TokenResolvesToOwner ==
    (TokenRouteAnswered /\ Truthy(CarriedToken(req))) =>
        LET owners == OwnersOf(CarriedToken(req))
        IN  IF owners = {}
            THEN resp.code = 401 /\ resp.detail = "Invalid device token"
            ELSE /\ Cardinality(owners) = 1
                 /\ resp.code = 200
                 /\ resp.oid \in owners
                 /\ resp.userId = Str(resp.oid)

\* both P1 and P2 hold a device, and the request carried P2's token
C3_Witness ==
    /\ req.op = "sos"
    /\ resp.code = 200
    /\ resp.oid = P2
    /\ OwnersOf(CarriedToken(req)) = {P2}
    /\ \E e \in registered : e.user = P1

\* C4: a POST /sos whose identity resolution fails changes no collection, issues
\* nothing and publishes nothing.
C4_RejectedSosChangesNothing ==
    [][(Idle /\ req'.op = "sos" /\ resp'.code # 200) =>
          /\ resp'.code \in {400, 401, 404}
          /\ UNCHANGED <<db, issued, registered, clock>>
          /\ emitted' = <<>>]_vars

\* the unregistered token "zzz" was refused while a device, a link and an alert exist
C4_Witness ==
    /\ req.op = "sos"
    /\ CarriedToken(req) = StrayToken
    /\ resp.code = 401
    /\ registered # {}
    /\ Alert # <<>>

\* the step is a POST /sos carrying both a token and a userId
SosWithBoth == Idle /\ req'.op = "sos" /\ Truthy(CarriedToken(req')) /\ Truthy(CarriedUserId(req'))

\* C5: when a POST /sos carries a token, the token alone decides: a registered token
\* resolves to its owner whatever userId comes with it, and only the owner's User
\* document changes; an unregistered token is refused with 401 whatever userId
\* comes with it.
C5_TokenAloneDecides ==
    [][SosWithBoth =>
        LET owners == OwnersOf(CarriedToken(req'))
        IN  IF owners = {}
            THEN resp'.code = 401 /\ resp'.detail = "Invalid device token" /\ User' = User
            ELSE /\ resp'.code = 200
                 /\ resp'.oid \in owners
                 /\ \A i \in 1..Len(User) : User[i]._id \notin owners => User'[i] = User[i]
                 /\ \E i \in 1..Len(User) : User[i]._id \in owners /\ User'[i].status = "emergency"]_vars

\* P1's token came with P2's userId, and the request resolved to P1
C5_Witness ==
    /\ req.op = "sos"
    /\ CarriedUserId(req) = P2
    /\ OwnersOf(CarriedToken(req)) = {P1}
    /\ resp.code = 200
    /\ resp.oid = P1
    /\ User[2].status = Absent

\* the userId parses: it is the hexadecimal form, in either case, of twelve bytes
Parses(s) == Len(s) = 24 /\ \A i \in 1..Len(s) : LowerChar(s[i]) \in
    {"0", "1", "2", "3", "4", "5", "6", "7", "8", "9", "a", "b", "c", "d", "e", "f"}

\* the users whose _id the text denotes
UsersDenotedBy(s) == {i \in 1..Len(User) : User[i]._id = Lower(s)}

\* C6: a POST /sos with no token and a userId fails with 400 Invalid userId format
\* exactly when the id does not parse, with 404 User not found exactly when it parses
\* and denotes no user, and otherwise resolves to the user it denotes; with neither
\* token nor userId it fails with 400 and a third detail.
C6_UserIdOutcomes ==
    (req.op = "sos" /\ ~Truthy(CarriedToken(req))) =>
        LET uid == CarriedUserId(req)
            malformed == resp.code = 400 /\ resp.detail = "Invalid userId format"
            notFound == resp.code = 404 /\ resp.detail = "User not found"
            missing == resp.code = 400
                       /\ resp.detail = "Either deviceToken or userId is required. Use deviceToken for dynamic user identification."
        IN  /\ missing <=> ~Truthy(uid)
            /\ malformed <=> (Truthy(uid) /\ ~Parses(uid))
            /\ notFound <=> (Truthy(uid) /\ Parses(uid) /\ UsersDenotedBy(uid) = {})
            /\ (Truthy(uid) /\ Parses(uid) /\ UsersDenotedBy(uid) # {}) =>
                  /\ resp.code = 200
                  /\ \E i \in UsersDenotedBy(uid) : resp.oid = User[i]._id
                                                    /\ User[i].status = "emergency"

\* a well-formed id of no user was answered 404
C6_Witness ==
    /\ req.op = "sos"
    /\ CarriedUserId(req) = GhostId
    /\ resp.code = 404

\* the PatientLocation rows of a patient
LocationsOf(locations, p) == {k \in 1..Len(locations) : locations[k].userId = p}

\* C7: the Alert a served POST /sos persists for patient P carries the coordinates of
\* P's PatientLocation record as the last RecordLocation before the trigger left it,
\* and no coordinates when P has none; either way the response says "emergency".
C7_AlertCarriesLastLocation ==
    [][SosServed =>
        LET p == Str(resp'.oid)
            rows == LocationsOf(PatientLocation, p)
            alert == Alert'[Len(Alert')]
        IN  /\ resp'.status = "emergency"
            /\ IF rows = {}
               THEN alert.latitude = <<>> /\ alert.longitude = <<>>
               ELSE \E k \in rows :
                       /\ \A j \in rows : PatientLocation[j].updatedAt <= PatientLocation[k].updatedAt
                       /\ alert.latitude = <<PatientLocation[k].latitude>>
                       /\ alert.longitude = <<PatientLocation[k].longitude>>]_vars

\* the links between a patient and a caregiver
LinksBetween(links, p, c) ==
    {k \in 1..Len(links) : links[k].patientUserId = p /\ links[k].caregiverUserId = c}

\* how many entries of a caregiver listing are caregiver c
Listed(items, c) == Cardinality({k \in 1..Len(items) : items[k].id = c})

\* C8: the first connect-caregiver of patient P to caregiver C inserts one ACTIVE
\* link and answers CONNECTED; every later one answers ALREADY_CONNECTED and inserts
\* nothing; after either, there is one link between them and P's caregiver listing
\* has C once.
C8_LinkIsIdempotent ==
    [][(Idle /\ req'.op = "connect" /\ resp'.code = 200) =>
        LET p == req'.auth
            c == resp'.userId
            before == LinksBetween(PatientCaregiverLink, p, c)
            after == LinksBetween(PatientCaregiverLink', p, c)
        IN  /\ Cardinality(after) = 1
            /\ \A k \in after : PatientCaregiverLink'[k].status = "ACTIVE"
            /\ Listed(CaregiverListing(PatientCaregiverLink', p), c) = 1
            /\ IF before = {}
               THEN /\ resp'.detail = "CONNECTED"
                    /\ Len(PatientCaregiverLink') = Len(PatientCaregiverLink) + 1
               ELSE /\ resp'.detail = "ALREADY_CONNECTED"
                    /\ PatientCaregiverLink' = PatientCaregiverLink]_vars

\* P1 connected to C1 a second time, while also linked to C2
C8_Witness ==
    /\ req.op = "connect"
    /\ req.auth = P1
    /\ resp.detail = "ALREADY_CONNECTED"
    /\ resp.userId = C1
    /\ Cardinality(LinksBetween(PatientCaregiverLink, P1, C1)) = 1
    /\ Len(PatientCaregiverLink) = 2

\* the caregiver code names the caller: their own e-mail address or their own id
NamesCaller(r) ==
    \E i \in 1..Len(User) :
        /\ User[i]._id = r.auth
        /\ Lower(Strip(r.code)) \in {Lower(User[i].email), User[i]._id}

\* C9: a connect-caregiver whose caregiver code names the caller is answered 400
\* "You cannot connect to yourself as a caregiver", and no link is stored for the
\* caller with themselves.
C9_SelfLinkRejected ==
    (req.op = "connect" /\ NamesCaller(req)) =>
        /\ resp.code = 400
        /\ resp.detail = "You cannot connect to yourself as a caregiver"
        /\ LinksBetween(PatientCaregiverLink, req.auth, req.auth) = {}

\* what the code does with it: 404, and no link
C9_Witness ==
    /\ req.op = "connect"
    /\ NamesCaller(req)
    /\ resp.code = 404
    /\ resp.detail = "Caregiver not found"

AckAnswered == Idle /\ req'.op = "ack" /\ resp'.code # 401

\* the Alert documents whose id is the text
AlertsNamed(id) == {k \in 1..Len(Alert) : Str(Alert[k]._id) = id}

\* C11: acknowledging an alertId that names no alert is answered 404 and changes
\* nothing; acknowledging an existing alert, the first time or again, is answered
\* 200, leaves that alert acknowledged and every other alert as it was.
C11_AckNotFoundOrIdempotent ==
    [][AckAnswered =>
        LET named == AlertsNamed(req'.alertId)
        IN  IF named = {}
            THEN resp'.code = 404 /\ UNCHANGED db
            ELSE /\ resp'.code = 200
                 /\ \A k \in 1..Len(Alert) :
                       IF k \in named THEN Alert'[k].isAcknowledged
                                      ELSE Alert'[k] = Alert[k]
                 /\ UNCHANGED <<User, Notification, PatientCaregiverLink>>]_vars

\* an id that is no ObjectId was answered 500
C11_Witness ==
    /\ req.op = "ack"
    /\ req.alertId = BadId
    /\ resp.code = 500
    /\ Alert # <<>>

\* for well-formed ids the statement holds: 404 without a change for an id of no
\* alert, 200 and isAcknowledged for an alert, also when it was acknowledged before
AckOfWellFormedId ==
    [][(AckAnswered /\ Parses(req'.alertId)) =>
        LET named == AlertsNamed(Lower(req'.alertId))
        IN  IF named = {}
            THEN resp'.code = 404 /\ UNCHANGED db
            ELSE /\ resp'.code = 200
                 /\ \A k \in 1..Len(Alert) :
                       IF k \in named THEN Alert'[k].isAcknowledged
                                      ELSE Alert'[k] = Alert[k]
                 /\ UNCHANGED <<User, Notification, PatientCaregiverLink>>]_vars

\* the Notifications and the Alerts a POST /sos coroutine has stored: the clock value
\* it read is its own
NotesOf(l) ==
    {k \in 1..Len(Notification) : /\ Notification[k].createdAt = l.now
                                  /\ Notification[k].relatedPatientId = l.id.user_id}
AlertsOf(l) ==
    {k \in 1..Len(Alert) : Alert[k].createdAt = l.now /\ Alert[k].patientUserId = l.id.user_id}

\* C12: when the Notification write for one caregiver fails, the trigger still
\* stores the Notifications of the caregivers after it and its Alert, and answers
\* 200.
C12_NotificationFailureSkipped ==
    \A p \in Procs :
        (proc[p].pc = "done" /\ proc[p].fault = "notification") =>
            LET l == proc[p]
            IN  /\ l.resp.code = 200
                /\ Cardinality(AlertsOf(l)) = 1
                /\ \A j \in (l.created + 2)..Len(l.caregiver_ids) :
                      \E k \in NotesOf(l) : Notification[k].userId = l.caregiver_ids[j]

\* the write for the first of two caregivers failed: 500, nothing for the second
\* caregiver, no Alert
C12_Witness ==
    \E p \in Procs :
        /\ proc[p].pc = "done"
        /\ proc[p].fault = "notification"
        /\ proc[p].created = 0
        /\ Len(proc[p].caregiver_ids) = 2
        /\ proc[p].resp.code = 500
        /\ NotesOf(proc[p]) = {}
        /\ AlertsOf(proc[p]) = {}

\* C13: when the Alert write fails the trigger answers with a server error; a
\* trigger that answers 200 has stored its Alert.
C13_AlertFailureSurfaced ==
    \A p \in Procs :
        proc[p].pc = "done" =>
            /\ proc[p].fault = "alert" => proc[p].resp.code >= 500
            /\ proc[p].resp.code = 200 => Cardinality(AlertsOf(proc[p])) = 1

\* the Alert write failed and the response is the success response without alertId
C13_Witness ==
    \E p \in Procs :
        /\ proc[p].pc = "done"
        /\ proc[p].fault = "alert"
        /\ proc[p].resp.code = 200
        /\ proc[p].resp.alertId = <<>>
        /\ proc[p].resp.caregiversNotified = <<2>>
        /\ AlertsOf(proc[p]) = {}

\* the user is in emergency since the coroutine's clock value or later
InEmergencySince(i, now) ==
    /\ User[i].status = "emergency"
    /\ User[i].emergencyTriggeredAt # <<>>
    /\ User[i].emergencyTriggeredAt[1] >= now

\* C15: once a POST /sos has resolved its user and written the status, the user is
\* in emergency with emergencyTriggeredAt recorded, whatever the status was before
\* and whichever of the later writes and emits fail; so it is when the response is
\* sent.
C15_EmergencyUnconditional ==
    \A p \in Procs :
        /\ (proc[p].id.ok /\ proc[p].pc \notin {"idle", "status"}) =>
              InEmergencySince(proc[p].id.idx, proc[p].now)
        /\ \A n \in 1..Len(proc[p].served) :
              proc[p].served[n].id.ok =>
                  InEmergencySince(proc[p].served[n].id.idx, proc[p].served[n].now)

\* a second trigger of P1 ended in 500 after a failed Notification write, the emit
\* of the first trigger failed, and P1 is in emergency
C15_Witness ==
    \E p \in Procs :
        /\ proc[p].pc = "done"
        /\ proc[p].fault = "notification"
        /\ proc[p].resp.code = 500
        /\ proc[p].now = 2
        /\ InEmergencySince(proc[p].id.idx, 2)
        /\ \E n \in 1..Len(delivered) : ~delivered[n].ok

(***************************************************************************)
(* C14                                                                     *)
(***************************************************************************)
\* the publishes an alert document asks for: one per caregiver for an SOS alert,
\* one for an alert of POST /alerts
PublishesOf(doc) ==
    IF "caregiverUserIds" \in DOMAIN doc THEN Len(doc.caregiverUserIds) ELSE 1

RECURSIVE PublishesAsked(_)
PublishesAsked(alerts) ==
    IF alerts = <<>> THEN 0
    ELSE PublishesOf(Head(alerts)) + PublishesAsked(Tail(alerts))

\* a background task ran to its end, with or without an error
EmitRan == Len(delivered') = Len(delivered) + 1

\* POST /sos or POST /alerts has just answered
PublisherAnswered == Idle /\ req'.op \in {"sos", "alert"}

\* C14: publishing is fire-and-forget.  A handler answers in the step that queues its
\* emits, without any of them having run; an emit that runs, failing or not, leaves
\* the stored documents, the request and its response as they are and leaves the
\* queue (it is not tried again); every publish asked for runs at most once.
C14_PublishIsFireAndForget ==
    /\ [](Len(tasks) + Len(delivered) = PublishesAsked(Alert))
    /\ [][/\ EmitRan => /\ UNCHANGED <<db, req, resp, emitted>>
                         /\ tasks' = Tail(tasks)
          /\ PublisherAnswered => /\ delivered' = delivered
                                  /\ tasks' = tasks \o emitted']_vars

\* an emit of a stored alert has failed and one is still waiting, while the request
\* that asked for them holds its success response
C14_Witness ==
    /\ req.op \in {"sos", "alert"}
    /\ resp.code \in {200, 201}
    /\ Alert # <<>>
    /\ tasks # <<>>
    /\ \E n \in 1..Len(delivered) : ~delivered[n].ok

(***************************************************************************)
(* C16                                                                     *)
(***************************************************************************)
\* the users whose status is "emergency"
InEmergency(users) == {users[i]._id : i \in {k \in 1..Len(users) : users[k].status = "emergency"}}

\* the alerts that differ between two states of the collection
ChangedAlerts(before, after) ==
    {k \in 1..Len(before) : k > Len(after) \/ after[k] # before[k]}

\* C16: a user in emergency stays in emergency through every step of every
\* operation, and an acknowledgement changes at most the isAcknowledged flag of the
\* alert it names and nothing else in the store.
C16_EmergencyIsNeverLeft ==
    [][/\ InEmergency(User) \subseteq InEmergency(User')
       /\ (Idle /\ req'.op = "ack") =>
              /\ UNCHANGED <<User, PatientCaregiverLink, PatientLocation, PatientProfile,
                             Notification, registered>>
              /\ Len(Alert') = Len(Alert)
              /\ \A k \in ChangedAlerts(Alert, Alert') :
                    /\ Str(Alert[k]._id) = req'.alertId
                    /\ Alert'[k] = [Alert[k] EXCEPT !.isAcknowledged = TRUE]]_vars

\* an alert of a user in emergency has been acknowledged, and the user is still in
\* emergency
C16_Witness ==
    /\ req.op = "ack"
    /\ resp.code = 200
    /\ \E k \in 1..Len(Alert) :
          /\ Alert[k].isAcknowledged
          /\ Str(Alert[k]._id) = req.alertId
          /\ Lower(Alert[k].patientUserId) \in InEmergency(User)

(***************************************************************************)
(* C17                                                                     *)
(***************************************************************************)
\* every coroutine has sent its response
Quiescent == \A p \in Procs : proc[p].pc = "idle"

\* the triggers that completed with the success response, as <<process, position>>
Completed ==
    {pn \in Procs \X (1..MaxTriggers) :
        /\ pn[2] <= Len(proc[pn[1]].served)
        /\ proc[pn[1]].served[pn[2]].resp.code = 200}

\* the completed triggers of user i
CompletedFor(i) == {pn \in Completed : proc[pn[1]].served[pn[2]].id.idx = i}

\* the alerts stored for the user with id oid, and the notifications stored for
\* caregiver c about that user
AlertsFor(oid) == {k \in 1..Len(Alert) : Lower(Alert[k].patientUserId) = oid}
NotificationsFor(c, oid) ==
    {k \in 1..Len(Notification) : /\ Notification[k].userId = c
                                  /\ Lower(Notification[k].relatedPatientId) = oid}

\* C17: when k triggers of a patient have completed, in sequence or interleaved, the
\* store holds k Alerts of the patient and k Notifications for each caregiver
\* actively linked to the patient.
C17_EveryTriggerLeavesItsOwnRecords ==
    Quiescent =>
        \A i \in 1..Len(User) :
            LET k == Cardinality(CompletedFor(i))
            IN  /\ Cardinality(AlertsFor(User[i]._id)) = k
                /\ \A n \in ActiveLinksOf(User[i]._id) :
                      Cardinality(NotificationsFor(PatientCaregiverLink[n].caregiverUserId,
                                                   User[i]._id)) = k

\* two triggers of the same linked patient have completed, the second received
\* before the first had written its alert
C17_Witness ==
    /\ Quiescent
    /\ \E i \in 1..Len(User) :
          /\ Cardinality(CompletedFor(i)) = 2
          /\ ActiveLinksOf(User[i]._id) # {}
          /\ Cardinality(AlertsFor(User[i]._id)) = 2
          /\ \A p \in Procs : Len(proc[p].served) = 1

\* what does hold: no trigger is merged with another.  Every completed trigger has
\* one Alert of its own and one Notification of its own for each caregiver its link
\* query returned.
TriggersAreNeverMerged ==
    Quiescent =>
        /\ Len(Alert) = Cardinality(Completed)
        /\ \A pn \in Completed :
              LET t == proc[pn[1]].served[pn[2]]
              IN  /\ Cardinality(AlertsOf(t)) = 1
                  /\ Cardinality(NotesOf(t)) = Len(t.caregiver_ids)
                  /\ \A j \in 1..Len(t.caregiver_ids) :
                        \E k \in NotesOf(t) : Notification[k].userId = t.caregiver_ids[j]

(***************************************************************************)
(* C18                                                                     *)
(***************************************************************************)
\* POST /sos/voice-toggle has just answered
VoiceAnswered == Idle /\ req'.op = "voice"

\* C18: a voice toggle writes nothing to the store, whatever its token; with the
\* token of a registered device it emits exactly one device:voice_toggle signal, and
\* with no token or an unregistered one it emits nothing.
C18_VoiceTogglePersistsNothing ==
    [][VoiceAnswered =>
          /\ UNCHANGED <<db, issued, registered, clock>>
          /\ IF Truthy(CarriedToken(req')) /\ OwnersOf(CarriedToken(req')) # {}
             THEN /\ resp'.code = 200
                  /\ Len(emitted') = 1
                  /\ emitted'[1].event = "device:voice_toggle"
             ELSE /\ resp'.code \in {400, 401}
                  /\ emitted' = <<>>]_vars

\* a toggle with a registered token was answered while alerts exist; its user's
\* status is still unset
C18_Witness ==
    /\ req.op = "voice"
    /\ resp.code = 200
    /\ Len(emitted) = 1
    /\ Alert # <<>>
    /\ \E i \in 1..Len(User) : User[i]._id = resp.oid /\ User[i].status = Absent

(***************************************************************************)
(* C19                                                                     *)
(***************************************************************************)
\* POST /sos/voice-toggle has answered 200 and its emits are those in emitted
VoiceSignalled == req.op = "voice" /\ resp.code = 200

\* C19, as claimed: the room of the voice-toggle signal of patient P is never the room
\* "recipient:" + P of P's alert events.
C19_VoiceChannelIsDistinct ==
    VoiceSignalled =>
        \A n \in 1..Len(emitted) :
            \A u \in OwnersOf(CarriedToken(req)) : emitted[n].room # Room(u)

\* C19, amended: the voice-toggle signal of patient P goes to the room
\* "recipient:" + P, the room of P's alert events, and differs from an alert event
\* by its event name and its empty payload.
C19_VoiceSharesRecipientRoom ==
    VoiceSignalled =>
        /\ emitted # <<>>
        /\ \A n \in 1..Len(emitted) :
              /\ emitted[n].event = "device:voice_toggle"
              /\ emitted[n].event # emit_alert_new(resp.userId, <<>>).event
              /\ emitted[n].payload = <<>>
              /\ \A u \in OwnersOf(CarriedToken(req)) :
                    emitted[n].room = emit_alert_new(u, <<>>).room

\* the signal of a registered device's owner was emitted
C19_Witness ==
    /\ VoiceSignalled
    /\ OwnersOf(CarriedToken(req)) # {}
    /\ \E n \in 1..Len(emitted) : emitted[n].room = Room(resp.userId)

(***************************************************************************)
(* C20                                                                     *)
(***************************************************************************)
\* the patient an alert:new event is about: the user the SOS was resolved to, or
\* the recipientId of POST /alerts
EventPatient(task) ==
    IF "patientUserId" \in DOMAIN task.payload
    THEN ObjectId(task.payload.patientUserId)
    ELSE task.payload.recipientId

\* the connections that have joined the room "recipient:" + p
SubscribedTo(p) == {sid \in Sids : <<sid, RecipientPrefix \o p>> \in rooms}

\* C20: when the emit of an event about patient P runs without an error, the
\* event reaches exactly the connections that are in the room "recipient:" + P at
\* that moment; with nobody in the room it reaches nobody, and in either case the
\* stored documents and the response of the request stay as they are.
C20_DeliveredToSubscribersOnly ==
    [][EmitRan =>
          LET d == delivered'[Len(delivered')]
          IN  /\ d.task = Head(tasks)
              /\ d.ok => d.to = SubscribedTo(EventPatient(d.task))
              /\ UNCHANGED <<db, req, resp, rooms>>]_vars

\* one event reached a subscriber of its patient while another connection sat only
\* in another patient's room, and one event found its room empty; the alerts
\* are stored
C20_Witness ==
    /\ Alert # <<>>
    /\ \E n \in 1..Len(delivered) :
          /\ delivered[n].ok
          /\ delivered[n].to # {}
          /\ \E sid \in Sids \ delivered[n].to : \E x \in rooms : x[1] = sid
    /\ \E m \in 1..Len(delivered) : delivered[m].ok /\ delivered[m].to = {}

(***************************************************************************)
(* C21                                                                     *)
(***************************************************************************)
\* C21: a stored Alert is never deleted, and no step of any operation changes it
\* except by setting its isAcknowledged to true; a later link or location ping
\* leaves its caregiverUserIds and its coordinates as they were stored.
C21_AlertsAreImmutable ==
    [][/\ Len(Alert') >= Len(Alert)
       /\ \A k \in 1..Len(Alert) :
             \/ Alert'[k] = Alert[k]
             \/ /\ ~Alert[k].isAcknowledged
                /\ Alert'[k] = [Alert[k] EXCEPT !.isAcknowledged = TRUE]]_vars

\* an acknowledged alert whose patient has since been linked to a further caregiver
\* and has since moved
C21_Witness ==
    \E k \in 1..Len(Alert) :
        /\ Alert[k].isAcknowledged
        /\ Len(Alert[k].caregiverUserIds) < Len(CaregiverIds(Alert[k].patientUserId))
        /\ LatestLocation(Alert[k].patientUserId) # 0
        /\ Alert[k].latitude # LocationField(LatestLocationDoc(Alert[k].patientUserId), "latitude")

(***************************************************************************)
(* C22                                                                     *)
(***************************************************************************)
\* C22: in every state, also while link requests of the same pair are in flight
\* together, the store holds at most one PatientCaregiverLink for any (patient,
\* caregiver) pair.
C22_OneLinkPerPair ==
    \A j, k \in 1..Len(PatientCaregiverLink) :
        (/\ PatientCaregiverLink[j].patientUserId = PatientCaregiverLink[k].patientUserId
         /\ PatientCaregiverLink[j].caregiverUserId = PatientCaregiverLink[k].caregiverUserId)
            => j = k

\* two requests of one pair were in flight together and both have answered
C22_Witness ==
    /\ \A p \in Procs : Len(proc[p].served) = 1 /\ proc[p].served[1].resp.code = 200
    /\ proc[1].served[1].resp.userId = proc[2].served[1].resp.userId
    /\ proc[1].served[1].r.auth = proc[2].served[1].r.auth

(***************************************************************************)
(* C23                                                                     *)
(***************************************************************************)
\* the five fields of a ping as the store keeps them: recordedAt falls back to the
\* time of the call
PingValues(body, now) ==
    [latitude |-> body.latitude, longitude |-> body.longitude,
     recordedAt |-> IF body.recordedAt # <<>> THEN body.recordedAt[1] ELSE now,
     accuracy |-> body.accuracy, battery |-> body.battery]

\* a served location ping of patient p leaves p's latest location, as the store holds
\* it and as every caregiver listing shows it, with all five fields of that ping,
\* and the other patients' locations as they were
PingIsLatest ==
    (Idle /\ req'.op = "ping" /\ resp'.code = 201) =>
        LET p == req'.auth
            values == PingValues(req'.ping[1], clock)
        IN  /\ LatestLocationEntry(PatientLocation', p) = <<values>>
            /\ \A c \in {C1, C2} :
                  LET listing == PatientListing(PatientCaregiverLink', PatientLocation', c)
                  IN  \A k \in 1..Len(listing) :
                          listing[k].id = p => listing[k].latestLocation = <<values>>
            /\ \A q \in {P1, P2} \ {p} :
                  LatestLocationEntry(PatientLocation', q) = LatestLocationEntry(PatientLocation, q)

\* a served SOS trigger of a patient stores the coordinates of the patient's latest
\* location in its Alert
SosReadsLatest ==
    SosServed =>
        LET latest == LatestLocationEntry(PatientLocation, Str(resp'.oid))
            alert == Alert'[Len(Alert')]
        IN  latest # <<>> =>
                /\ alert.latitude = <<latest[1].latitude>>
                /\ alert.longitude = <<latest[1].longitude>>

\* C23: the latest location of patient P, as caregiver listings and the SOS trigger
\* read it, is that of P's last served ping, with latitude, longitude, accuracy,
\* battery and recordedAt all replaced by that ping's; other patients' locations are
\* unaffected.
C23_LatestWins == [][PingIsLatest /\ SosReadsLatest]_vars

\* the store and the listings alone: the statement holds of every ping
LatestWinsInStore == [][PingIsLatest]_vars

\* P1, linked to C1, pinged with accuracy and battery and then without them: the
\* latest location has neither
C23_Witness ==
    /\ req.op = "ping"
    /\ req.auth = P1
    /\ resp.code = 201
    /\ req.ping[1] = PingB
    /\ LatestLocationEntry(PatientLocation, P1) = <<PingValues(PingB, 0)>>
    /\ \E k \in LocationsOf(PatientLocation, P1) :
          PatientLocation[k].updatedAt > PatientLocation[k].createdAt
    /\ Len(PatientListing(PatientCaregiverLink, PatientLocation, C1)) = 1

(***************************************************************************)
(* C24                                                                     *)
(***************************************************************************)
\* connect-caregiver has answered a caller who is a patient
LookupAnswered == Idle /\ req'.op = "connect" /\ resp'.code \notin {401, 403}

\* the caregivers each strategy yields for a caregiver code: the whole e-mail in
\* any case, a part of the e-mail in any case, the id
Caregivers == {k \in 1..Len(User) : User[k].role = "CAREGIVER"}
ByWholeEmail(code) == {k \in Caregivers : Lower(User[k].email) = Lower(code)}
ByPartOfEmail(code) ==
    {k \in Caregivers :
        \E a \in 0..Len(User[k].email) :
            /\ a + Len(code) <= Len(User[k].email)
            /\ Lower(SubSeq(User[k].email, a + 1, a + Len(code))) = Lower(code)}
ById(code) == {k \in Caregivers : Parses(code) /\ User[k]._id = Lower(code)}

\* the caregiver the answer names, as a set: empty for 404
Answered(response) ==
    IF response.code = 404 THEN {}
    ELSE {k \in 1..Len(User) : Str(User[k]._id) = response.userId}

\* C24, as claimed: the lookup takes the first of the three strategies, in the order
\* whole e-mail, part of the e-mail, id, that yields a caregiver, and answers 404
\* only when none of them yields one.
C24_ThreeStrategiesInOrder ==
    [][LookupAnswered =>
          LET code == Strip(req'.code)
              found == IF ByWholeEmail(code) # {} THEN ByWholeEmail(code)
                       ELSE IF ByPartOfEmail(code) # {} THEN ByPartOfEmail(code)
                       ELSE ById(code)
          IN  /\ Answered(resp') \subseteq found
              /\ Answered(resp') = {} <=> found = {}]_vars

\* C24, amended: the lookup uses one strategy, chosen by the shape of the trimmed
\* code: the whole e-mail when the code has an "@", else the id when the code is 24
\* characters that parse as an ObjectId, else a part of the e-mail; it answers 404
\* when that one strategy yields no caregiver, whatever the others would yield.
C24_OneStrategyByShape ==
    [][LookupAnswered =>
          LET code == Strip(req'.code)
              found == IF HasAt(code) THEN ByWholeEmail(code)
                       ELSE IF Parses(code) THEN ById(code)
                       ELSE ByPartOfEmail(code)
          IN  /\ Answered(resp') \subseteq found
              /\ Answered(resp') = {} <=> found = {}]_vars

\* the beginning of C1's e-mail up to the "@" was answered 404
C24_Witness ==
    /\ req.op = "connect"
    /\ req.code = <<"c", "1", "@">>
    /\ resp.code = 404
    /\ ByPartOfEmail(req.code) # {}

(***************************************************************************)
(* C25                                                                     *)
(***************************************************************************)
\* the device token is in the deviceTokens list of the user with id oid
HoldsToken(oid, token) ==
    \E i \in 1..Len(User) :
        /\ User[i]._id = oid
        /\ \E k \in 1..Len(User[i].deviceTokens) : User[i].deviceTokens[k].token = token

\* C25: every device token register-device has returned for user U is in U's
\* deviceTokens and resolves to U, in the state after the registration and in every
\* later state; a token once returned stays registered.
C25_DeviceTokensAccumulate ==
    /\ [](\A e \in registered :
             /\ HoldsToken(e.user, e.token)
             /\ UserByToken(e.token) # 0
             /\ User[UserByToken(e.token)]._id = e.user)
    /\ [][/\ registered \subseteq registered'
          /\ \A i \in 1..Len(User) : \A k \in 1..Len(User[i].deviceTokens) :
                /\ Len(User') >= i
                /\ Len(User'[i].deviceTokens) >= k
                /\ User'[i].deviceTokens[k] = User[i].deviceTokens[k]]_vars

\* P1 registered two devices and then triggered an SOS with the first one's token
C25_Witness ==
    /\ req.op = "sos"
    /\ resp.code = 200
    /\ CarriedToken(req) = TokenOf(1)
    /\ \E i \in 1..Len(User) :
          /\ User[i]._id = resp.oid
          /\ Len(User[i].deviceTokens) = 2
          /\ User[i].status = "emergency"

(***************************************************************************)
(* C26                                                                     *)
(***************************************************************************)
Roles == {"CAREGIVER", "PATIENT"}

\* the stored record of the user with that id has no role
StoredWithoutRole(id) == \E i \in 1..Len(User) : Str(User[i]._id) = id /\ User[i].role \notin Roles

\* login and registration: the identity returned has a role, CAREGIVER when the
\* record or the request has none, and every record registration stores has one
RoleOnLoginAndRegister ==
    /\ (req.op = "login" /\ resp.code = 200) =>
          /\ resp.items[1].role \in Roles
          /\ StoredWithoutRole(resp.userId) => resp.items[1].role = "CAREGIVER"
    /\ (req.op = "register-account" /\ resp.code = 201) =>
          /\ resp.items[1].role \in Roles
          /\ req.body[1].role = "" => resp.items[1].role = "CAREGIVER"
          /\ \E i \in 1..Len(User) :
                Str(User[i]._id) = resp.userId /\ User[i].role = resp.items[1].role

\* the bearer token: get-me returns a role, CAREGIVER for a record without one, and
\* a route for caregivers takes the user of such a record for a caregiver
RoleOnBearerToken ==
    /\ (req.op = "me" /\ resp.code = 200) =>
          /\ resp.items[1].role \in Roles
          /\ StoredWithoutRole(resp.userId) => resp.items[1].role = "CAREGIVER"
    /\ (req.op = "patients" /\ StoredWithoutRole(req.auth)) => resp.code = 200

\* C26: every user identity the system reads has a role: login, the bearer token
\* and get-me return CAREGIVER for a stored record without a role, and a
\* registration without a role stores CAREGIVER.
C26_RoleNeverNull == RoleOnLoginAndRegister /\ RoleOnBearerToken

\* the legacy user, who logs in as a CAREGIVER, asked for their own record and got it
\* without a role
C26_Witness ==
    /\ req.op = "me"
    /\ req.auth = L1
    /\ resp.code = 200
    /\ resp.items[1].role = Absent
    /\ _get_user_by_email(resp.items[1].email)[1].role = "CAREGIVER"

(***************************************************************************)
(* C27                                                                     *)
(***************************************************************************)
\* the step taken is coroutine p storing a Notification, storing its Alert,
\* queueing its emits
StoresNotification(p) == proc'[p].created = proc[p].created + 1 /\ Len(Notification') = Len(Notification) + 1
StoresAlert(p) == proc[p].alert = <<>> /\ proc'[p].alert # <<>> /\ Len(Alert') = Len(Alert) + 1
Publishes(p) == proc[p].pc # "done" /\ proc'[p].pc = "done" /\ Len(tasks') > Len(tasks)

\* the caregiver lookup of coroutine p is behind it
LookedUp(p) == proc[p].pc \in {"location", "notify"}

\* the order of the source: lookup, location, every Notification, the Alert, the
\* emits
OrderInSource ==
    [][\A p \in Procs :
          /\ StoresNotification(p) => LookedUp(p) /\ AlertsOf(proc[p]) = {}
          /\ StoresAlert(p) => /\ LookedUp(p)
                               /\ Cardinality(NotesOf(proc[p])) = Len(proc[p].caregiver_ids)
                               /\ Alert'[Len(Alert')].caregiverUserIds = proc[p].caregiver_ids
          /\ Publishes(p) => StoresAlert(p)]_vars

\* C27: within one SOS trigger the steps happen in order: caregiver lookup, then
\* the Alert is stored with the caregiver snapshot, then the Notifications, then
\* the event is published; no Notification of a trigger is stored before that
\* trigger's Alert.
C27_StepsInOrder ==
    [][\A p \in Procs :
          /\ StoresAlert(p) => /\ LookedUp(p)
                               /\ Alert'[Len(Alert')].caregiverUserIds = proc[p].caregiver_ids
          /\ StoresNotification(p) => AlertsOf(proc[p]) # {}
          /\ Publishes(p) => AlertsOf(proc'[p]) # {}]_vars

\* a trigger has stored the Notifications of both caregivers and not yet its Alert
C27_Witness ==
    \E p \in Procs :
        /\ proc[p].pc = "notify"
        /\ proc[p].created = 2
        /\ Cardinality(NotesOf(proc[p])) = 2
        /\ AlertsOf(proc[p]) = {}

(***************************************************************************)
(* C28                                                                     *)
(***************************************************************************)
\* an SOS route has answered with success, for the patient with this id
SosAnswered == req.op \in {"sos", "patient-sos"} /\ resp.code = 200
TriggeringPatient ==
    IF req.op = "sos" THEN Str(resp.oid) ELSE Str(User[get_current_user(req.auth)]._id)

\* the stored Alert the answer names
AnsweredAlert == Alert[First({k \in 1..Len(Alert) : <<Str(Alert[k]._id)>> = resp.alertId})]

\* the SOS Alerts raised for the patient with id P
SosAlertsFor(P) ==
    {k \in 1..Len(Alert) : /\ Alert[k].type = "SOS"
                           /\ "patientUserId" \in DOMAIN Alert[k]
                           /\ ObjectIdValid(Alert[k].patientUserId)
                           /\ ObjectId(Alert[k].patientUserId) = P}

\* the Alert of the device route names the patient as the request did
DeviceAlertNamesRequestId ==
    (req.op = "sos" /\ resp.code = 200) =>
        /\ "recipientId" \in DOMAIN AnsweredAlert
        /\ AnsweredAlert.recipientId = resp.userId
        /\ ObjectId(AnsweredAlert.recipientId) = TriggeringPatient

\* C28: every Alert an SOS operation stores, by the device route or by the
\* patient route, has recipientId equal to the triggering patient's id, so the
\* listing filtered by recipientId = P returns every SOS alert raised for P.
C28_SosAlertsHaveRecipient ==
    /\ SosAnswered =>
          /\ "recipientId" \in DOMAIN AnsweredAlert
          /\ AnsweredAlert.recipientId = TriggeringPatient
    /\ (req.op = "alerts" /\ resp.code = 200 /\ req.recipientId \in {P1, P2}) =>
          \A k \in SosAlertsFor(req.recipientId) :
              \E n \in 1..Len(resp.items) : resp.items[n].id = Str(Alert[k]._id)

\* P1 raised an SOS by the patient route, and the listing for P1 came back empty
C28_Witness ==
    /\ req.op = "alerts"
    /\ req.recipientId = P1
    /\ resp.code = 200
    /\ resp.items = <<>>
    /\ \E k \in SosAlertsFor(P1) : "recipientId" \notin DOMAIN Alert[k]

(***************************************************************************)
(* C29                                                                     *)
(***************************************************************************)
\* the step is an SOS route answering with success
SosSucceeds == Idle /\ req'.op \in {"sos", "patient-sos"} /\ resp'.code = 200

\* the caregivers linked to the patient with id P
LinkedCaregivers(P) ==
    {k \in 1..Len(PatientCaregiverLink) :
        PatientCaregiverLink[k].patientUserId = P /\ PatientCaregiverLink[k].status = "ACTIVE"}

\* the patient the step's request is from
PatientOfStep ==
    IF req'.op = "sos" THEN Str(resp'.oid) ELSE Str(User[get_current_user(req'.auth)]._id)

\* the device route counts the Notifications it stored
DeviceCountIsStored ==
    [][(SosSucceeds /\ req'.op = "sos") =>
          resp'.caregiversNotified = <<Len(Notification') - Len(Notification)>>]_vars

\* C29: the caregiversNotified of a successful SOS operation, by the device
\* route or the patient route, is the number of Notifications the operation
\* stored, one per caregiver linked to the patient at that time.
C29_CountIsNotificationsStored ==
    [][SosSucceeds =>
          /\ resp'.caregiversNotified = <<Len(Notification') - Len(Notification)>>
          /\ resp'.caregiversNotified = <<Cardinality(LinkedCaregivers(PatientOfStep))>>]_vars

\* the patient route has answered caregiversNotified 2 and no Notification is stored
C29_Witness ==
    /\ req.op = "patient-sos"
    /\ resp.code = 200
    /\ resp.caregiversNotified = <<2>>
    /\ Notification = <<>>

(***************************************************************************)
(* C30                                                                     *)
(***************************************************************************)
\* the Notifications of the trigger that stored the Alert at position k
NotesOfAlert(k) ==
    {n \in 1..Len(Notification) : /\ Notification[n].createdAt = Alert[k].createdAt
                                  /\ Notification[n].relatedPatientId = Alert[k].patientUserId}

\* C30: for every Alert a device SOS trigger stores, the caregivers that got a
\* Notification from that trigger are the Alert's caregiverUserIds, and each of
\* those Notifications has the Alert's latitude and longitude, also when links
\* are made and locations recorded by other requests between the trigger's steps.
C30_SnapshotConsistency ==
    \A k \in 1..Len(Alert) :
        /\ Cardinality(NotesOfAlert(k)) = Len(Alert[k].caregiverUserIds)
        /\ {Notification[n].userId : n \in NotesOfAlert(k)}
              = {Alert[k].caregiverUserIds[i] : i \in 1..Len(Alert[k].caregiverUserIds)}
        /\ \A n \in NotesOfAlert(k) : /\ Notification[n].latitude = Alert[k].latitude
                                       /\ Notification[n].longitude = Alert[k].longitude

\* a trigger that found one caregiver and the first location has stored its
\* Notification and its Alert, while since its start the patient has linked a
\* second caregiver and recorded another location
C30_Witness ==
    \E p \in Procs :
        LET l == proc[p]
        IN  /\ l.pc = "done"
            /\ l.alert # <<>>
            /\ Len(l.caregiver_ids) = 1
            /\ Cardinality(NotesOf(l)) = 1
            /\ l.alert[1].latitude = <<PingA.latitude>>
            /\ \E k \in 1..Len(PatientCaregiverLink) :
                   /\ PatientCaregiverLink[k].patientUserId = l.id.user_id
                   /\ PatientCaregiverLink[k].createdAt > l.now
            /\ \E k \in 1..Len(PatientLocation) :
                   /\ PatientLocation[k].userId = l.id.user_id
                   /\ PatientLocation[k].updatedAt > l.now
                   /\ PatientLocation[k].latitude = PingB.latitude

====
